---- MODULE Spec2Model ----
(***************************************************************************)
(* A model of dmitigr::sqlixx: the Statement execution state machine       *)
(* (src/src/sqlixx/statement.hpp), the Connection transaction guard        *)
(* (src/src/sqlixx/connection.hpp) and the Data buffer descriptor with its *)
(* conversions (src/src/sqlixx/data.hpp, src/src/sqlixx/conversions.hpp),  *)
(* over a small model of the engine's handle API.                          *)
(*                                                                         *)
(* Three specifications share the module:                                  *)
(*   Spec      one Statement object prepared on an open connection         *)
(*   SpecTxn   Connection::execute and Connection::with_rollback_on_error  *)
(*   SpecData  Data descriptors, their buffers and the engine's binding    *)
(***************************************************************************)
EXTENDS Integers, Sequences, FiniteSets, TLC

\* ------------------------------------------------------------------------
\* Engine result codes
\* ------------------------------------------------------------------------
SQLITE_OK == 0
SQLITE_ERROR == 1
SQLITE_BUSY == 5
SQLITE_NOMEM == 7
SQLITE_CONSTRAINT == 19
SQLITE_MISUSE == 21
SQLITE_RANGE == 25
SQLITE_ROW == 100
SQLITE_DONE == 101

\* The unset value of Statement::last_step_result_.
Unset == 0 - 1

\* ------------------------------------------------------------------------
\* Bounds of the model
\* ------------------------------------------------------------------------
\* Row ids supplied by callers are 0..MaxId.
MaxId == 1
\* The byte buffers are 1..MaxBufs.
MaxBufs == 2
\* The engine's database handles are 1..MaxDbs.
MaxDbs == 2
\* The engine's statement handles are 1..MaxStmts.
MaxStmts == 2

\* A bound or stored value is SQL NULL or a one-element tuple holding an
\* integer or a text.
NULL == <<>>
IntV(i) == <<i>>
TextV(t) == <<t>>
Ids == {IntV(i) : i \in 0..MaxId}
Vals == {TextV("a"), TextV("b")}

VARIABLES
  table,               \* engine: the rows of tab(id integer not null unique, val text)
  autocommit,          \* engine: the sqlite3_get_autocommit flag of the database
  saved,               \* engine: the rows as they were at BEGIN
  conn_handle_,        \* Connection::handle_ (0 = null)
  stmt_handle_,        \* Statement::handle_ (0 = null)
  last_step_result_,   \* Statement::last_step_result_
  estmt,               \* engine: the prepared statement behind stmt_handle_
  out,                 \* the last call made and what came of it
  unit,                \* with_rollback_on_error: the unit of work in progress
  descs,               \* the Data descriptors of the caller
  bufs,                \* the byte buffers: storage and release function calls
  binding,             \* engine: what is bound to the parameter Data is bound to
  conns,               \* the Connection objects of the caller
  stmts,               \* the Statement objects of the caller
  handles              \* engine: the database and the statement handles

stmtVars == <<stmt_handle_, last_step_result_, estmt>>

connVars == <<table, autocommit, saved, conn_handle_, unit>>

dataVars == <<descs, bufs, binding>>

lifeVars == <<conns, stmts, handles>>

vars == <<table, autocommit, saved, conn_handle_, stmt_handle_,
          last_step_result_, estmt, out, unit, descs, bufs, binding,
          conns, stmts, handles>>

\* The Connection and Statement objects and the engine's handles before
\* any call.  An object is [alive, handle, last] (a Connection has no last);
\* a database handle is "unused", "open" or "closed"; a statement handle is
\* [state, db, rc, finalizes]: "unused", "open" or "finalized", the database
\* it was prepared on, the code of its most recent execution, the calls of
\* sqlite3_finalize made on it.
ConnNames == {"c", "d"}

StmtNames == {"s", "t"}

DbHandles == 1..MaxDbs

StmtHandles == 1..MaxStmts

\* Statement(): the default state
DefaultStatement == [alive |-> TRUE, handle |-> 0, last |-> 0 - 1]

\* Connection(): the default state
DefaultConnection == [alive |-> TRUE, handle |-> 0]

NoLife ==
  /\ conns = [c \in ConnNames |-> [DefaultConnection EXCEPT !.alive = FALSE]]
  /\ stmts = [s \in StmtNames |-> [DefaultStatement EXCEPT !.alive = FALSE]]
  /\ handles = [dbs |-> [h \in DbHandles |-> "unused"],
                stmts |-> [h \in StmtHandles |->
                            [state |-> "unused", db |-> 0, rc |-> 0,
                             finalizes |-> 0]]]

\* The Data descriptors, the buffers and the binding before any call.
DataNames == {"x", "y"}

Bufs == 1..MaxBufs

Deleters == {"STATIC", "TRANSIENT", "free"}

\* The length of the bytes of buffer b.
BufLen(b) == b + 1

\* Data(): the default state
EmptyData == [alive |-> TRUE, data |-> 0, size |-> 0, deleter |-> "STATIC"]

DeadData == [EmptyData EXCEPT !.alive = FALSE]

NoBinding == [kind |-> "null", buf |-> 0, len |-> 0, destr |-> "STATIC",
              rvalue |-> FALSE]

NoData ==
  /\ descs = [x \in DataNames |-> DeadData]
  /\ bufs = [b \in Bufs |-> [state |-> "unused", frees |-> 0, owned |-> FALSE,
                             released |-> FALSE]]
  /\ binding = NoBinding


\* ------------------------------------------------------------------------
\* Engine: the database and its prepared statements
\* ------------------------------------------------------------------------
\* The statements of the scenarios:
\*   "insert"    insert into tab(id, val) values(?, ?)
\*   "select"    select * from tab where id >= ? and id < ? order by id
\*   "named"     select id, val, id as val from tab
\*                 where id >= :lo and id < :hi order by id
\*   "begin", "commit", "rollback"
Sqls == {"insert", "select"}
TxnSqls == {"begin", "commit", "rollback"}

\* The statements that yield rows.
IsSelect(sql) == sql \in {"select", "named"}

ParamCount(sql) == IF sql \in {"insert", "select", "named"} THEN 2 ELSE 0

\* The names of the parameters; a ? parameter has none ("").
ParamNames(sql) ==
  IF sql = "named" THEN <<":lo", ":hi">>
  ELSE IF ParamCount(sql) = 2 THEN <<"", "">> ELSE <<>>

ColNames(sql) ==
  IF sql = "select" THEN <<"id", "val">>
  ELSE IF sql = "named" THEN <<"id", "val", "val">> ELSE <<>>

NoStmt ==
  [sql |-> "none", bound |-> <<>>, vstate |-> "none", cur |-> 0, run |-> <<>>]

\* A database: its rows, its autocommit flag, the rows at BEGIN.
Db(tbl, ac, sv) == [tbl |-> tbl, ac |-> ac, saved |-> sv]

sqlite3_prepare_v3(sql) ==
  [sql |-> sql, bound |-> IF ParamCount(sql) = 2 THEN <<NULL, NULL>> ELSE <<>>,
   vstate |-> "ready", cur |-> 0, run |-> <<>>]

sqlite3_bind_parameter_count(e) == Len(e.bound)

\* sqlite3_bind_parameter_index: the one-based position of the parameter
\* named name, 0 when there is none.
sqlite3_bind_parameter_index(e, name) ==
  IF \E i \in 1..Len(ParamNames(e.sql)) : ParamNames(e.sql)[i] = name
  THEN CHOOSE i \in 1..Len(ParamNames(e.sql)) :
         /\ ParamNames(e.sql)[i] = name
         /\ \A j \in 1..(i - 1) : ParamNames(e.sql)[j] # name
  ELSE 0

sqlite3_column_count(e) == Len(ColNames(e.sql))

\* sqlite3_column_name: a null pointer (<<>>) for a column that does not exist.
sqlite3_column_name(e, i) ==
  IF 0 <= i /\ i < sqlite3_column_count(e) THEN <<ColNames(e.sql)[i + 1]>> ELSE <<>>

sqlite3_get_autocommit(db) == IF db.ac THEN 1 ELSE 0

sqlite3_reset(e) ==
  IF e.sql = "none" THEN e
  ELSE [e EXCEPT !.vstate = "ready", !.cur = 0, !.run = <<>>]

\* sqlite3_clear_bindings: every parameter is NULL again, whatever the state
\* of the statement; the call always returns SQLITE_OK.
sqlite3_clear_bindings(e) ==
  [e EXCEPT !.bound = [i \in 1..Len(e.bound) |-> NULL]]

\* The result code of sqlite3_bind_*(e, pos, ...): the statement must not be
\* running or halted, and pos is one-based.
BindCode(e, pos) ==
  IF e.vstate # "ready" THEN SQLITE_MISUSE
  ELSE IF pos < 1 \/ pos > Len(e.bound) THEN SQLITE_RANGE
  ELSE SQLITE_OK

sqlite3_bind_value(e, pos, v) ==
  IF BindCode(e, pos) = SQLITE_OK THEN [e EXCEPT !.bound[pos] = v] ELSE e

\* The rows of a table in id order.
RECURSIVE SortedRows(_)
SortedRows(rows) ==
  IF rows = {} THEN <<>>
  ELSE LET r == CHOOSE x \in rows : \A y \in rows : x.id <= y.id
       IN <<r>> \o SortedRows(rows \ {r})

\* The result of the select statement for its bound range.
SelectRows(tbl, lo, hi) ==
  IF lo = NULL \/ hi = NULL THEN <<>>
  ELSE SortedRows({r \in tbl : lo[1] <= r.id /\ r.id < hi[1]})

Halted(e) == [e EXCEPT !.vstate = "halt", !.run = <<>>]

\* The parameter values a select runs with: a running statement took them
\* when it started (run), and a later sqlite3_clear_bindings does not reach it.
Range(e) == IF e.vstate = "run" THEN e.run ELSE e.bound

\* One sqlite3_step: [rc, e, db].  A halted statement is reset by the engine
\* before it runs again; fault = "step" is an engine failure (busy) that
\* leaves the database as it is.
sqlite3_step(e0, db, fault) ==
  LET e == IF e0.vstate = "halt" THEN sqlite3_reset(e0) ELSE e0 IN
  IF fault = "step" THEN [rc |-> SQLITE_BUSY, e |-> Halted(e), db |-> db]
  ELSE IF e.sql = "insert" THEN
    IF e.bound[1] = NULL \/ \E r \in db.tbl : r.id = e.bound[1][1]
    THEN [rc |-> SQLITE_CONSTRAINT, e |-> Halted(e), db |-> db]
    ELSE [rc |-> SQLITE_DONE, e |-> Halted(e),
          db |-> [db EXCEPT !.tbl = @ \cup {[id |-> e.bound[1][1], val |-> e.bound[2]]}]]
  ELSE IF IsSelect(e.sql) THEN
    LET rows == SelectRows(db.tbl, Range(e)[1], Range(e)[2]) IN
    IF e.cur < Len(rows)
    THEN [rc |-> SQLITE_ROW,
          e |-> [e EXCEPT !.vstate = "run", !.cur = e.cur + 1, !.run = Range(e)],
          db |-> db]
    ELSE [rc |-> SQLITE_DONE, e |-> Halted(e), db |-> db]
  ELSE IF e.sql = "begin" THEN
    IF db.ac
    THEN [rc |-> SQLITE_DONE, e |-> Halted(e), db |-> Db(db.tbl, FALSE, db.tbl)]
    ELSE [rc |-> SQLITE_ERROR, e |-> Halted(e), db |-> db]
  ELSE IF e.sql = "commit" THEN
    IF db.ac
    THEN [rc |-> SQLITE_ERROR, e |-> Halted(e), db |-> db]
    ELSE [rc |-> SQLITE_DONE, e |-> Halted(e), db |-> [db EXCEPT !.ac = TRUE]]
  ELSE \* "rollback"
    IF db.ac
    THEN [rc |-> SQLITE_ERROR, e |-> Halted(e), db |-> db]
    ELSE [rc |-> SQLITE_DONE, e |-> Halted(e), db |-> Db(db.saved, TRUE, db.saved)]

\* The row the cursor of a running select is positioned on.
CurrentRow(e, db) == SelectRows(db.tbl, Range(e)[1], Range(e)[2])[e.cur]

\* sqlite3_column_*(e, i): the value of column i of the current row.  Off a
\* row or out of range the engine's result is unspecified: u is what it gives.
sqlite3_column_value(e, db, i, u) ==
  IF e.vstate = "run" /\ 0 <= i /\ i < sqlite3_column_count(e)
  THEN IF i = 1 THEN CurrentRow(e, db).val ELSE IntV(CurrentRow(e, db).id)
  ELSE u

\* ------------------------------------------------------------------------
\* Statement: an operation maps a machine m to the machine after it.
\*   h, last    Statement::handle_, Statement::last_step_result_
\*   e, db      the engine statement and the database
\*   fault      the engine failure met by this call ("none", "prepare", "step")
\*   exc, code  the exception the operation raised ("none" when it returned)
\*   calls      engine bind/column calls made
\*   args       the position or index argument of each of these calls
\*   steps      engine steps made
\*   rows       the rows handed to the callback
\*   codes      the second argument of each call of the callback
\*   res        the value returned
\* ------------------------------------------------------------------------
Machine(h, last, e, db, fault) ==
  [h |-> h, last |-> last, e |-> e, db |-> db, fault |-> fault,
   exc |-> "none", code |-> 0, calls |-> 0, args |-> <<>>, steps |-> 0,
   rows |-> <<>>, codes |-> <<>>, res |-> <<>>]

Raise(m, kind, code) == [m EXCEPT !.exc = kind, !.code = code]

\* What constructing a std::string from a null pointer does is undefined:
\* the build throws std::logic_error or the process dies.
UBOutcomes == {"logic_error", "crash"}

\* A variant of check_bind that lets every result code pass.
check_bind_quiet(m, r) == m

\* detail::check_bind
check_bind(m, r) ==
  IF r # SQLITE_OK THEN Raise(m, "Sqlite_exception", r) ELSE m

\* A variant of reset that also clears the bindings.
Statement_reset_clears(m) ==
  [m EXCEPT !.last = Unset, !.e = sqlite3_clear_bindings(sqlite3_reset(m.e))]

\* Statement::reset
Statement_reset(m) ==
  [m EXCEPT !.last = Unset, !.e = sqlite3_reset(m.e)]

\* Statement::parameter_count
Statement_parameter_count(m) == sqlite3_bind_parameter_count(m.e)

\* Statement::column_count
Statement_column_count(m) == sqlite3_column_count(m.e)

\* A variant of bind that passes the caller's index to the engine as it is.
Statement_bind_same(m, index, v) ==
  IF m.h = 0 THEN Raise(m, "Exception", 0)
  ELSE IF ~(index < Statement_parameter_count(m)) THEN Raise(m, "Exception", 0)
  ELSE check_bind([m EXCEPT !.e = sqlite3_bind_value(m.e, index, v),
                            !.calls = m.calls + 1,
                            !.args = Append(m.args, index)],
                  BindCode(m.e, index))

\* Statement::bind(index, value)
Statement_bind(m, index, v) ==
  IF m.h = 0 THEN Raise(m, "Exception", 0)
  ELSE IF ~(index < Statement_parameter_count(m)) THEN Raise(m, "Exception", 0)
  ELSE check_bind([m EXCEPT !.e = sqlite3_bind_value(m.e, index + 1, v),
                            !.calls = m.calls + 1,
                            !.args = Append(m.args, index + 1)],
                  BindCode(m.e, index + 1))

\* Statement::bind_null(index)
Statement_bind_null(m, index) ==
  IF m.h = 0 THEN Raise(m, "Exception", 0)
  ELSE IF ~(index < Statement_parameter_count(m)) THEN Raise(m, "Exception", 0)
  ELSE check_bind([m EXCEPT !.e = sqlite3_bind_value(m.e, index + 1, NULL),
                            !.calls = m.calls + 1,
                            !.args = Append(m.args, index + 1)],
                  BindCode(m.e, index + 1))

\* Statement::bind_null(): all the parameters
Statement_bind_null_all(m) ==
  IF m.h = 0 THEN Raise(m, "Exception", 0)
  ELSE check_bind([m EXCEPT !.e = sqlite3_clear_bindings(m.e),
                            !.calls = m.calls + 1],
                  SQLITE_OK)

\* std::string{name}: undefined for a null pointer.
StringFrom(m, name, ub) ==
  IF name = <<>> THEN Raise(m, ub, 0) ELSE [m EXCEPT !.res = name]

\* Statement::parameter_name(index)
Statement_parameter_name(m, index, ub) ==
  IF m.h = 0 THEN Raise(m, "Exception", 0)
  ELSE IF ~(index < Statement_parameter_count(m)) THEN Raise(m, "Exception", 0)
  ELSE StringFrom([m EXCEPT !.calls = m.calls + 1,
                            !.args = Append(m.args, index + 1)],
                  sqlite3_column_name(m.e, index + 1), ub)

\* Statement::column_name(index)
Statement_column_name(m, index, ub) ==
  IF m.h = 0 THEN Raise(m, "Exception", 0)
  ELSE IF ~(index < Statement_column_count(m)) THEN Raise(m, "Exception", 0)
  ELSE StringFrom([m EXCEPT !.calls = m.calls + 1,
                            !.args = Append(m.args, index)],
                  sqlite3_column_name(m.e, index), ub)

\* Statement::result<T>(index)
Statement_result(m, index, u) ==
  IF m.h = 0 THEN Raise(m, "Exception", 0)
  ELSE IF ~(index < Statement_column_count(m)) THEN Raise(m, "Exception", 0)
  ELSE [m EXCEPT !.calls = m.calls + 1,
                 !.args = Append(m.args, index),
                 !.res = sqlite3_column_value(m.e, m.db, index, u)]

\* Statement::parameter_index(name)
Statement_parameter_index(m, name) ==
  IF m.h = 0 THEN Raise(m, "Exception", 0)
  ELSE [m EXCEPT !.res = <<sqlite3_bind_parameter_index(m.e, name) - 1>>]

\* A variant of the throwing lookups that accepts every index.
ThrowIfNegative_never(r) == r

\* parameter_index_throw / column_index_throw: if (index < 0) throw, on the
\* machine r the lookup left.
ThrowIfNegative(r) ==
  IF r.exc = "none" /\ r.res[1] < 0 THEN Raise([r EXCEPT !.res = <<>>], "Exception", 0)
  ELSE r

\* Statement::parameter_index_throw(name)
Statement_parameter_index_throw(m, name) ==
  ThrowIfNegative(Statement_parameter_index(m, name))

\* Statement::column_index(name): the loop from column i on.
RECURSIVE column_index_from(_, _, _)
column_index_from(m, name, i) ==
  IF ~(i < Statement_column_count(m)) THEN [m EXCEPT !.res = <<0 - 1>>]
  ELSE IF sqlite3_column_name(m.e, i) = <<>> THEN Raise(m, "bad_alloc", 0)
  ELSE IF sqlite3_column_name(m.e, i) = <<name>> THEN [m EXCEPT !.res = <<i>>]
  ELSE column_index_from(m, name, i + 1)

\* Statement::column_index(name)
Statement_column_index(m, name) ==
  IF m.h = 0 THEN Raise(m, "Exception", 0)
  ELSE column_index_from(m, name, 0)

\* Statement::column_index_throw(name)
Statement_column_index_throw(m, name) ==
  ThrowIfNegative(Statement_column_index(m, name))

\* bind(name, value): bind(index, value) on the machine r the lookup left.
BindAt(r, v) ==
  IF r.exc # "none" THEN r ELSE Statement_bind([r EXCEPT !.res = <<>>], r.res[1], v)

\* Statement::bind(name, value)
Statement_bind_name(m, name, v) == BindAt(Statement_parameter_index_throw(m, name), v)

\* bind_null(name): bind_null(index) on the machine r the lookup left.
BindNullAt(r) ==
  IF r.exc # "none" THEN r ELSE Statement_bind_null([r EXCEPT !.res = <<>>], r.res[1])

\* Statement::bind_null(name)
Statement_bind_null_name(m, name) == BindNullAt(Statement_parameter_index_throw(m, name))

\* result<T>(name): result<T>(index) on the machine r the lookup left.
ResultAt(r, u) ==
  IF r.exc # "none" THEN r ELSE Statement_result([r EXCEPT !.res = <<>>], r.res[1], u)

\* Statement::result<T>(name)
Statement_result_name(m, name, u) == ResultAt(Statement_column_index_throw(m, name), u)

\* A variant of bind_many__ that binds from the last value down to the first.
RECURSIVE bind_down_from(_, _, _)
bind_down_from(m, values, j) ==
  IF j <= 0 \/ m.exc # "none" THEN m
  ELSE bind_down_from(Statement_bind(m, j - 1, values[j]), values, j - 1)

bind_many_down(m, values, i) == bind_down_from(m, values, Len(values))

\* Statement::bind_many__: bind(0, v0), bind(1, v1), ... until one raises.
RECURSIVE bind_many__(_, _, _)
bind_many__(m, values, i) ==
  IF i >= Len(values) \/ m.exc # "none" THEN m
  ELSE bind_many__(Statement_bind(m, i, values[i + 1]), values, i + 1)

\* Statement::bind_many
Statement_bind_many(m, values) == bind_many__(m, values, 0)

\* A callback of execute is [arity, void, stopAt]: it takes the statement
\* (arity 1) or the statement and an int (arity 2); it returns void, or a
\* bool that is false on its stopAt-th call (never when stopAt = 0).  It
\* raises an error of its own on its throwAt-th call (never when throwAt = 0).
Callback(arity, void, stopAt) ==
  [arity |-> arity, void |-> void, stopAt |-> stopAt, throwAt |-> 0]

\* The callback cb made to raise on its n-th call.
Throwing(cb, n) == [cb EXCEPT !.throwAt = n]

\* execute, case SQLITE_ROW: the callback raised on its n-th call.
Throws(cb, n) == cb.throwAt # 0 /\ n = cb.throwAt

\* The engine failure met by the next step: "late" leaves the first step of
\* the call alone and fails the later ones.
StepFault(m) ==
  IF m.fault = "late" THEN (IF m.steps >= 1 THEN "step" ELSE "none") ELSE m.fault

\* return last_step_result_
Returns(m) == [m EXCEPT !.res = <<m.last>>]

\* execute, case SQLITE_ROW: the call of the callback for the current row;
\* codes holds the second argument of each call (Unset when it takes none).
OnRow(m, cb, row) ==
  [m EXCEPT !.rows = Append(m.rows, row),
            !.codes = Append(m.codes, IF cb.arity = 2 THEN m.last ELSE Unset)]

\* A variant of the loop that goes on whatever the callback returns.
Stops_never(cb, n) == FALSE

\* A variant of the loop that stops after every call of the callback.
Stops_always(cb, n) == TRUE

\* execute, case SQLITE_ROW: the callback returned false on its n-th call.
Stops(cb, n) == ~cb.void /\ n = cb.stopAt

\* A variant of the error case that raises whatever the callback takes.
OnStepError_raises(m, cb) == Raise(m, "Sqlite_exception", m.last)

\* execute, default case: the step returned neither ROW nor DONE.
OnStepError(m, cb) ==
  IF cb.arity = 2
  THEN Returns([m EXCEPT !.codes = Append(m.codes, m.last)])
  ELSE Raise(m, "Sqlite_exception", m.last)

\* The step loop of Statement::execute with the callback cb.
RECURSIVE ExecuteLoop(_, _)
ExecuteLoop(m, cb) ==
  LET s == sqlite3_step(m.e, m.db, StepFault(m))
      m1 == [m EXCEPT !.last = s.rc, !.e = s.e, !.db = s.db, !.steps = m.steps + 1]
  IN
  IF s.rc = SQLITE_ROW THEN
    LET m2 == OnRow(m1, cb, CurrentRow(s.e, s.db)) IN
    IF Throws(cb, Len(m2.codes)) THEN Raise(m2, "user", 0)
    ELSE IF Stops(cb, Len(m2.codes)) THEN Returns(m2) ELSE ExecuteLoop(m2, cb)
  ELSE IF s.rc = SQLITE_DONE THEN Returns(m1)
  ELSE OnStepError(m1, cb)

\* The step loop of Statement::execute with a one-argument bool callback that
\* returns false on its stopAt-th call (never when stopAt = 0).
StepLoop(m, stopAt) == ExecuteLoop(m, Callback(1, FALSE, stopAt))

\* A variant of the automatic reset that resets before every execute.
AutoReset_always(m) == Statement_reset(m)

\* A variant of the automatic reset that never resets.
AutoReset_never(m) == m

\* Statement::execute(callback, values...): the automatic reset after done.
AutoReset(m) == IF m.last = SQLITE_DONE THEN Statement_reset(m) ELSE m

\* A variant of execute that binds its values unless it is on a row.
BindIfFresh_unless_row(m, values) ==
  IF m.last = SQLITE_ROW THEN m ELSE Statement_bind_many(m, values)

\* A variant of execute that binds its values whatever the last step was.
BindIfFresh_always(m, values) == Statement_bind_many(m, values)

\* Statement::execute(callback, values...): the binding of the values.
BindIfFresh(m, values) ==
  IF m.last < 0 \/ m.last = SQLITE_DONE THEN Statement_bind_many(m, values) ELSE m

\* A variant of execute that steps also when the binding raised.
LoopUnlessRaised_loops(m, cb) == ExecuteLoop(m, cb)

\* Statement::execute(callback, values...): the loop unless binding raised.
LoopUnlessRaised(m, cb) == IF m.exc # "none" THEN m ELSE ExecuteLoop(m, cb)

\* Statement::execute(callback, values...) with the callback cb
Statement_execute_cb(m, cb, values) ==
  IF m.h = 0 THEN Raise(m, "Exception", 0)
  ELSE LoopUnlessRaised(BindIfFresh(AutoReset(m), values), cb)

\* Statement::execute(callback, values...) with a one-argument bool callback
\* that returns false on its stopAt-th call (never when stopAt = 0).
Statement_execute(m, stopAt, values) ==
  Statement_execute_cb(m, Callback(1, FALSE, stopAt), values)

\* ------------------------------------------------------------------------
\* Specification Spec: one Statement object s on an open connection
\* ------------------------------------------------------------------------
\* out: the call, its arguments, the marker before it and its outcome;
\* afterBind tells of an execute that the call before it was a bind(index, v)
\* that returned.
NoCall ==
  [op |-> "none", index |-> 0, values |-> <<>>, pre |-> Unset, exc |-> "none",
   code |-> 0, calls |-> 0, rows |-> <<>>, res |-> <<>>, name |-> "",
   args |-> <<>>, afterBind |-> FALSE]

Called(op, index, values, m) ==
  [op |-> op, index |-> index, values |-> values, pre |-> last_step_result_,
   exc |-> m.exc, code |-> m.code, calls |-> m.calls, rows |-> m.rows,
   res |-> m.res, name |-> "", args |-> m.args, afterBind |-> FALSE]

\* with_rollback_on_error: no unit of work is running.
NoUnit == [on |-> FALSE, began |-> FALSE, writes |-> {}]

\* A process that died makes no further call.
Running == out.exc # "crash"

Init ==
  /\ table = {}
  /\ autocommit = TRUE
  /\ saved = {}
  /\ conn_handle_ = 1
  /\ stmt_handle_ = 0
  /\ last_step_result_ = Unset
  /\ estmt = NoStmt
  /\ out = NoCall
  /\ unit = NoUnit
  /\ NoData
  /\ NoLife

Here == Machine(stmt_handle_, last_step_result_, estmt,
                Db(table, autocommit, saved), "none")

\* The statement and the table after an operation.
Becomes(m) ==
  /\ stmt_handle_' = m.h
  /\ last_step_result_' = m.last
  /\ estmt' = m.e
  /\ table' = m.db.tbl
  /\ autocommit' = m.db.ac
  /\ saved' = m.db.saved
  /\ UNCHANGED <<conn_handle_, unit>>
  /\ UNCHANGED dataVars
  /\ UNCHANGED lifeVars

\* The values a caller passes for the parameters of a statement.
ParamValues(sql, pos) ==
  IF sql = "insert" /\ pos = 2 THEN Vals ELSE Ids

ValueLists(sql) ==
  {<<>>} \cup {<<a>> : a \in ParamValues(sql, 1)}
         \cup {<<a, b>> : a \in ParamValues(sql, 1), b \in ParamValues(sql, 2)}

\* The values a caller passes to bind(index, v).
BindValues(sql, index) ==
  IF index = 1 THEN ParamValues(sql, 2) ELSE ParamValues(sql, 1)

\* The indexes a caller passes: one below and one above the valid ones.
Indexes == (0 - 1)..2

\* What the engine gives for a column read off a row or out of range.
Unspecified == {NULL, TextV("a")}

\* s = c.prepare(sql): Statement(sqlite3*, sql, flags) move-assigned to s,
\* which finalizes the statement s held.
Prepare(sql) ==
  /\ Running
  /\ conn_handle_ # 0
  /\ out' = Called("prepare", 0, <<>>, Here)
  /\ Becomes([Here EXCEPT !.h = 1, !.last = Unset, !.e = sqlite3_prepare_v3(sql)])

\* s.execute(callback, values...)
Execute(stopAt, values) ==
  LET m == Statement_execute(Here, stopAt, values) IN
  /\ Running
  /\ out' = [Called("execute", stopAt, values, m) EXCEPT
               !.afterBind = (out.op = "bind" /\ out.exc = "none")]
  /\ Becomes(m)

\* s.reset()
Reset ==
  LET m == Statement_reset(Here) IN
  /\ Running
  /\ out' = Called("reset", 0, <<>>, m)
  /\ Becomes(m)

\* s.bind(index, v)
Bind(index, v) ==
  LET m == Statement_bind(Here, index, v) IN
  /\ Running
  /\ out' = Called("bind", index, <<v>>, m)
  /\ Becomes(m)

\* s.bind_null(index)
BindNull(index) ==
  LET m == Statement_bind_null(Here, index) IN
  /\ Running
  /\ out' = Called("bind_null", index, <<>>, m)
  /\ Becomes(m)

\* s.bind_null()
BindNullAll ==
  /\ Running
  /\ \E m \in {Statement_bind_null_all(Here)} :
       /\ out' = Called("bind_null_all", 0, <<>>, m)
       /\ Becomes(m)

\* s.parameter_name(index)
ParameterName(index, ub) ==
  LET m == Statement_parameter_name(Here, index, ub) IN
  /\ Running
  /\ out' = Called("parameter_name", index, <<>>, m)
  /\ Becomes(m)

\* s.column_name(index)
ColumnName(index, ub) ==
  LET m == Statement_column_name(Here, index, ub) IN
  /\ Running
  /\ out' = Called("column_name", index, <<>>, m)
  /\ Becomes(m)

\* s.result<T>(index)
Result(index, u) ==
  LET m == Statement_result(Here, index, u) IN
  /\ Running
  /\ out' = Called("result", index, <<>>, m)
  /\ Becomes(m)

Next ==
  \/ \E sql \in Sqls : Prepare(sql)
  \/ \E stopAt \in 0..1, values \in ValueLists(estmt.sql) : Execute(stopAt, values)
  \/ Reset
  \/ \E index \in Indexes : \E v \in BindValues(estmt.sql, index) : Bind(index, v)

Spec == Init /\ [][Next]_vars

\* ------------------------------------------------------------------------
\* Specification SpecMany: the Statement s given up to three values at once
\* ------------------------------------------------------------------------
\* The value lists of Spec and the lists of three values, one more than a
\* statement has parameters.
ManyLists(sql) ==
  ValueLists(sql) \cup
  {<<a, b, c>> : a \in ParamValues(sql, 1), b \in ParamValues(sql, 2),
                 c \in {IntV(0)}}

\* s.bind_many(values...)
BindMany(values) ==
  /\ Running
  /\ \E m \in {Statement_bind_many(Here, values)} :
       /\ out' = Called("bind_many", 0, values, m)
       /\ Becomes(m)

NextMany ==
  \/ \E sql \in Sqls : Prepare(sql)
  \/ \E stopAt \in 0..1, values \in ManyLists(estmt.sql) : Execute(stopAt, values)
  \/ Reset
  \/ \E values \in ManyLists(estmt.sql) : BindMany(values)

SpecMany == Init /\ [][NextMany]_vars

\* ------------------------------------------------------------------------
\* Properties of Spec
\* ------------------------------------------------------------------------
\* The rows a select that ran from its start handed to a callback that
\* stopped it at its stopAt-th call (never when stopAt = 0).
Delivered(rows, stopAt) ==
  IF stopAt = 0 \/ stopAt > Len(rows) THEN rows ELSE SubSeq(rows, 1, stopAt)

\* C1: an execute(values...) made when the previous execute of the statement
\* returned SQLITE_DONE, with no reset() in between, is not refused by the
\* engine as a bind on a finished statement; it binds the new values at
\* positions 0..n-1 and runs the statement from its start: an insert either
\* adds the row of the values now bound or fails on the constraint without
\* adding it, and a select hands its rows to the callback from the first.
C1_ReExecuteAfterDone ==
  (out.op = "execute" /\ out.pre = SQLITE_DONE) =>
    /\ out.exc # "Exception"
    /\ out.code # SQLITE_MISUSE
    /\ \A i \in 1..Len(out.values) : estmt.bound[i] = out.values[i]
    /\ (estmt.sql = "insert" /\ out.exc = "none") =>
         /\ last_step_result_ = SQLITE_DONE
         /\ [id |-> estmt.bound[1][1], val |-> estmt.bound[2]] \in table
    /\ (estmt.sql = "insert" /\ out.exc # "none") =>
         /\ out.exc = "Sqlite_exception"
         /\ out.code = SQLITE_CONSTRAINT
         /\ last_step_result_ = SQLITE_CONSTRAINT
    /\ estmt.sql = "select" =>
         /\ out.exc = "none"
         /\ out.rows = Delivered(SelectRows(table, estmt.bound[1], estmt.bound[2]),
                                 out.index)

\* C1 witness: the second of two run-to-completion executes of one prepared
\* insert, made without a reset, has added (1, "b") after (0, "a"), and the
\* select for id = 1 yields exactly "b".
C1_Witness ==
  /\ out.op = "execute"
  /\ out.pre = SQLITE_DONE
  /\ out.exc = "none"
  /\ estmt.sql = "insert"
  /\ out.values = <<IntV(1), TextV("b")>>
  /\ table = {[id |-> 0, val |-> TextV("a")], [id |-> 1, val |-> TextV("b")]}
  /\ SelectRows(table, IntV(1), IntV(2)) = <<[id |-> 1, val |-> TextV("b")]>>

\* The claim C28 as stated: a parameter that the caller bound with
\* bind(index, v) since the last done/initial state is not rebound by the
\* values passed to the execute that follows.
C28_AsStated ==
  [][(/\ out.op = "bind"
      /\ out.exc = "none"
      /\ out'.op = "execute"
      /\ out'.exc # "Exception")
     => estmt'.bound[out.index + 1] = estmt.bound[out.index + 1]]_vars

\* C28: execute binds the n values it is given at the positions 0..n-1
\* exactly when the last-step marker is unset or done, whether or not the
\* caller bound parameters with bind() since then: the bindings at these
\* positions are replaced and those at the positions from n on are kept; when
\* the marker is a row or an error code, execute makes no bind call and every
\* binding is kept.
C28_BindsWhenUnsetOrDone ==
  [][(out'.op = "execute" /\ stmt_handle_ # 0) =>
       IF last_step_result_ < 0 \/ last_step_result_ = SQLITE_DONE
       THEN /\ out'.calls = Len(out'.values)
            /\ \A i \in 1..Len(estmt.bound) :
                 estmt'.bound[i] = IF i <= Len(out'.values) THEN out'.values[i]
                                   ELSE estmt.bound[i]
       ELSE /\ out'.calls = 0
            /\ estmt'.bound = estmt.bound]_vars

\* C28 witness: an execute(1, "b") made right after a bind(index, v) that
\* returned, on an insert whose marker was unset, has bound both values and
\* added the row (1, "b").
C28_Witness ==
  /\ out.op = "execute"
  /\ out.afterBind
  /\ out.pre = Unset
  /\ out.calls = 2
  /\ estmt.sql = "insert"
  /\ out.values = <<IntV(1), TextV("b")>>
  /\ estmt.bound = <<IntV(1), TextV("b")>>
  /\ [id |-> 1, val |-> TextV("b")] \in table

\* C29: a bind(index, v) made when the last step result of the statement is
\* done, or when its cursor is on a row, is rejected with an error and leaves
\* every parameter binding, and the marker, as they were.
C29_NoBindUntilReset ==
  [][(/\ out'.op = "bind"
      /\ last_step_result_ \in {SQLITE_DONE, SQLITE_ROW})
     => (/\ out'.exc \in {"Exception", "Sqlite_exception"}
         /\ estmt'.bound = estmt.bound
         /\ last_step_result_' = last_step_result_)]_vars

\* C29 witness: a bind(0, v) made after an execute that ran the statement to
\* completion was refused by the engine as a misuse.
C29_Witness ==
  /\ out.op = "bind"
  /\ out.index = 0
  /\ out.pre = SQLITE_DONE
  /\ out.exc = "Sqlite_exception"
  /\ out.code = SQLITE_MISUSE
  /\ out.calls = 1
  /\ last_step_result_ = SQLITE_DONE

\* ------------------------------------------------------------------------
\* Specification SpecIdx: the calls that take an index, on a statement over
\* a table that holds a row for every id
\* ------------------------------------------------------------------------
FullTable == {[id |-> i, val |-> TextV("a")] : i \in 0..MaxId}

InitIdx ==
  /\ table = FullTable
  /\ autocommit = TRUE
  /\ saved = {}
  /\ conn_handle_ = 1
  /\ stmt_handle_ = 0
  /\ last_step_result_ = Unset
  /\ estmt = NoStmt
  /\ out = NoCall
  /\ unit = NoUnit
  /\ NoData
  /\ NoLife

NextIdx ==
  \/ \E sql \in Sqls : Prepare(sql)
  \/ \E stopAt \in 0..1, values \in ValueLists(estmt.sql) : Execute(stopAt, values)
  \/ Reset
  \/ \E index \in Indexes : \E v \in BindValues(estmt.sql, index) : Bind(index, v)
  \/ \E index \in Indexes : BindNull(index)
  \/ BindNullAll
  \/ \E index \in Indexes, ub \in UBOutcomes : ParameterName(index, ub)
  \/ \E index \in Indexes, ub \in UBOutcomes : ColumnName(index, ub)
  \/ \E index \in Indexes, u \in Unspecified : Result(index, u)

SpecIdx == InitIdx /\ [][NextIdx]_vars

\* ------------------------------------------------------------------------
\* Properties of SpecMany
\* ------------------------------------------------------------------------
\* bind(0, v0), bind(1, v1), bind(2, v2) one after the other, each made only
\* when the one before it returned.
BindInTurn(m, values) ==
  LET m0 == IF Len(values) >= 1 THEN Statement_bind(m, 0, values[1]) ELSE m
      m1 == IF Len(values) >= 2 /\ m0.exc = "none"
            THEN Statement_bind(m0, 1, values[2]) ELSE m0
  IN IF Len(values) >= 3 /\ m1.exc = "none"
     THEN Statement_bind(m1, 2, values[3]) ELSE m1

\* The number of binds of bind_many(values) that return, on the statement
\* of this state.
BindsReturning(values) ==
  IF stmt_handle_ = 0 \/ estmt.vstate # "ready" THEN 0
  ELSE IF Len(values) < Len(estmt.bound) THEN Len(values) ELSE Len(estmt.bound)

C39_RaisesBeforeStepping ==
  [][out'.op = "execute" =>
       /\ stmt_handle_ = 0 =>
            /\ out'.exc = "Exception"
            /\ UNCHANGED <<stmt_handle_, last_step_result_, estmt, table,
                           autocommit, saved>>
       /\ (/\ stmt_handle_ # 0
           /\ last_step_result_ \in {Unset, SQLITE_DONE}
           /\ Len(out'.values) > Statement_parameter_count(Here)) =>
            /\ out'.exc = "Exception"
            /\ out'.rows = <<>>
            /\ last_step_result_' = Unset
            /\ estmt'.vstate = "ready"
            /\ estmt'.cur = 0
            /\ UNCHANGED <<table, autocommit, saved>>
            /\ \A i \in 1..Statement_parameter_count(Here) :
                 estmt'.bound[i] = out'.values[i]]_vars

\* C39 witness: after an insert that ran to SQLITE_DONE, an execute of the
\* same statement with three values raised; the marker is unset, the first
\* two values are bound and their row is not in the table.
C39_Witness ==
  /\ out.op = "execute"
  /\ out.pre = SQLITE_DONE
  /\ Len(out.values) = 3
  /\ out.exc = "Exception"
  /\ last_step_result_ = Unset
  /\ estmt.sql = "insert"
  /\ estmt.bound = <<IntV(1), TextV("b")>>
  /\ table = {[id |-> 0, val |-> TextV("a")]}

\* ------------------------------------------------------------------------
\* Properties of SpecIdx
\* ------------------------------------------------------------------------
IndexedOps == {"bind", "bind_null", "parameter_name", "column_name", "result"}

\* The count an index is to be validated against.
CountFor(op, e) ==
  IF op \in {"bind", "bind_null", "parameter_name"}
  THEN sqlite3_bind_parameter_count(e) ELSE sqlite3_column_count(e)

\* C10: a call of bind(index, v), bind_null(index), parameter_name(index),
\* column_name(index) or result<T>(index) with an index outside [0, count),
\* negative indexes included, raises a precondition error before any engine
\* bind/column call is made and leaves the statement's bindings and its
\* last-step marker unchanged.
C10_IndexValidation ==
  [][(/\ out'.op \in IndexedOps
      /\ stmt_handle_ # 0
      /\ ~(0 <= out'.index /\ out'.index < CountFor(out'.op, estmt)))
     => (/\ out'.exc = "Exception"
         /\ out'.calls = 0
         /\ estmt' = estmt
         /\ last_step_result_' = last_step_result_)]_vars

\* C22: reset() sets the last-step marker to unset and puts the engine cursor
\* back at the start, and leaves every parameter binding as it was; the
\* automatic reset inside execute keeps the binding of every parameter that
\* execute is given no value for; bind_null() makes every parameter NULL; and
\* a parameter that was bound to a value is NULL after a call on the same
\* statement only if that call was bind_null.
C22_ResetKeepsBindings ==
  [][/\ out'.op = "reset" =>
          /\ last_step_result_' = Unset
          /\ estmt'.bound = estmt.bound
          /\ estmt.sql # "none" => (estmt'.cur = 0 /\ estmt'.vstate = "ready")
     /\ out'.op = "execute" =>
          \A i \in (Len(out'.values) + 1)..Len(estmt.bound) :
            estmt'.bound[i] = estmt.bound[i]
     /\ (out'.op = "bind_null_all" /\ out'.exc = "none") =>
          \A i \in 1..Len(estmt'.bound) : estmt'.bound[i] = NULL
     /\ (/\ out'.op # "prepare"
         /\ \E i \in 1..Len(estmt.bound) :
              estmt.bound[i] # NULL /\ estmt'.bound[i] = NULL)
          => out'.op \in {"bind_null_all", "bind_null"}]_vars

\* C22 witness: a reset() made after a select ran to completion left the
\* marker unset and both parameters bound as they were.
C22_Witness ==
  /\ out.op = "reset"
  /\ out.pre = SQLITE_DONE
  /\ last_step_result_ = Unset
  /\ estmt.sql = "select"
  /\ estmt.vstate = "ready"
  /\ estmt.bound = <<IntV(0), IntV(1)>>

\* ------------------------------------------------------------------------
\* Specification SpecName: the lookups and the calls by name next to the
\* calls by index, on a statement with named parameters
\* ------------------------------------------------------------------------
\* The names a caller looks up: those of the parameters and the columns of
\* "named", the same in another case, and one that is neither.
Names == {":lo", ":hi", ":LO", "id", "val", "VAL", "x"}

CalledName(op, name, values, m) ==
  [Called(op, 0, values, m) EXCEPT !.name = name]

\* s.parameter_index(name) / s.parameter_index_throw(name)
ParameterIndex(name, throwing) ==
  /\ Running
  /\ \E m \in {IF throwing THEN Statement_parameter_index_throw(Here, name)
                           ELSE Statement_parameter_index(Here, name)} :
       /\ out' = CalledName(IF throwing THEN "parameter_index_throw"
                                        ELSE "parameter_index", name, <<>>, m)
       /\ Becomes(m)

\* s.column_index(name) / s.column_index_throw(name)
ColumnIndex(name, throwing) ==
  /\ Running
  /\ \E m \in {IF throwing THEN Statement_column_index_throw(Here, name)
                           ELSE Statement_column_index(Here, name)} :
       /\ out' = CalledName(IF throwing THEN "column_index_throw"
                                        ELSE "column_index", name, <<>>, m)
       /\ Becomes(m)

\* s.bind(name, v)
BindName(name, v) ==
  /\ Running
  /\ \E m \in {Statement_bind_name(Here, name, v)} :
       /\ out' = CalledName("bind_name", name, <<v>>, m)
       /\ Becomes(m)

\* s.bind_null(name)
BindNullName(name) ==
  /\ Running
  /\ \E m \in {Statement_bind_null_name(Here, name)} :
       /\ out' = CalledName("bind_null_name", name, <<>>, m)
       /\ Becomes(m)

\* s.result<T>(name)
ResultName(name, u) ==
  /\ Running
  /\ \E m \in {Statement_result_name(Here, name, u)} :
       /\ out' = CalledName("result_name", name, <<>>, m)
       /\ Becomes(m)

NextName ==
  \/ \E sql \in {"insert", "named"} : Prepare(sql)
  \/ \E values \in {<<>>, <<IntV(0), IntV(MaxId + 1)>>} : Execute(1, values)
  \/ Reset
  \/ \E index \in Indexes : \E v \in Ids : Bind(index, v)
  \/ \E index \in Indexes : BindNull(index)
  \/ \E index \in Indexes, u \in Unspecified : Result(index, u)
  \/ \E index \in Indexes, ub \in UBOutcomes : ParameterName(index, ub)
  \/ \E name \in Names, throwing \in BOOLEAN : ParameterIndex(name, throwing)
  \/ \E name \in Names, throwing \in BOOLEAN : ColumnIndex(name, throwing)
  \/ \E name \in Names, v \in Ids : BindName(name, v)
  \/ \E name \in Names : BindNullName(name)
  \/ \E name \in Names, u \in Unspecified : ResultName(name, u)

SpecName == InitIdx /\ [][NextName]_vars

\* ------------------------------------------------------------------------
\* Properties of SpecName
\* ------------------------------------------------------------------------
\* The zero-based position of the first element of names equal to name,
\* -1 when there is none.
FirstIn(names, name) ==
  IF \E i \in 1..Len(names) : names[i] = name
  THEN (CHOOSE i \in 1..Len(names) :
          names[i] = name /\ \A j \in 1..(i - 1) : names[j] # name) - 1
  ELSE 0 - 1

\* C11: on a prepared statement, bind(i, v) and bind_null(i) with a valid i
\* call the engine for position i + 1 and, when accepted, leave the value at
\* that position; parameter_index(name) returns the engine's one-based index
\* minus 1; bind(name, v) and bind_null(name) call the engine for the same
\* position as bind(parameter_index(name), v) would; result<T>(i) and
\* result<T>(name) pass the column index to the engine unchanged.
C11_IndexTranslation ==
  stmt_handle_ # 0 =>
    /\ (/\ out.op \in {"bind", "bind_null"}
        /\ 0 <= out.index
        /\ out.index < sqlite3_bind_parameter_count(estmt)) =>
         /\ out.args = <<out.index + 1>>
         /\ out.exc = "none" =>
              estmt.bound[out.index + 1] =
                IF out.op = "bind" THEN out.values[1] ELSE NULL
    /\ out.op = "parameter_index" =>
         out.res = <<sqlite3_bind_parameter_index(estmt, out.name) - 1>>
    /\ (/\ out.op \in {"bind_name", "bind_null_name"}
        /\ FirstIn(ParamNames(estmt.sql), out.name) >= 0) =>
         /\ out.args = <<FirstIn(ParamNames(estmt.sql), out.name) + 1>>
         /\ out.args =
              Statement_bind(Here, Statement_parameter_index(Here, out.name).res[1],
                             NULL).args
         /\ out.exc = "none" =>
              estmt.bound[FirstIn(ParamNames(estmt.sql), out.name) + 1] =
                IF out.op = "bind_name" THEN out.values[1] ELSE NULL
    /\ (/\ out.op = "result"
        /\ 0 <= out.index
        /\ out.index < sqlite3_column_count(estmt)) =>
         out.args = <<out.index>>
    /\ (/\ out.op = "result_name"
        /\ FirstIn(ColNames(estmt.sql), out.name) >= 0) =>
         out.args = <<FirstIn(ColNames(estmt.sql), out.name)>>

\* C11 witness: bind(":hi", 1) on the named statement was accepted and put
\* the value at the engine's position 2.
C11_Witness ==
  /\ out.op = "bind_name"
  /\ out.name = ":hi"
  /\ out.exc = "none"
  /\ out.args = <<2>>
  /\ out.values = <<IntV(1)>>
  /\ estmt.bound = <<NULL, IntV(1)>>

\* C12: on a prepared statement, parameter_index(name) and
\* column_index(name) never raise and return the zero-based index of the
\* first parameter / column with exactly that name, -1 when there is none;
\* parameter_index_throw(name) and column_index_throw(name) raise an
\* Exception exactly when there is none and return the same index otherwise.
C12_NameLookup ==
  stmt_handle_ # 0 =>
    /\ out.op = "parameter_index" =>
         /\ out.exc = "none"
         /\ out.res = <<FirstIn(ParamNames(estmt.sql), out.name)>>
    /\ out.op = "column_index" =>
         /\ out.exc = "none"
         /\ out.res = <<FirstIn(ColNames(estmt.sql), out.name)>>
    /\ out.op = "parameter_index_throw" =>
         IF FirstIn(ParamNames(estmt.sql), out.name) < 0
         THEN out.exc = "Exception"
         ELSE /\ out.exc = "none"
              /\ out.res = <<FirstIn(ParamNames(estmt.sql), out.name)>>
    /\ out.op = "column_index_throw" =>
         IF FirstIn(ColNames(estmt.sql), out.name) < 0
         THEN out.exc = "Exception"
         ELSE /\ out.exc = "none"
              /\ out.res = <<FirstIn(ColNames(estmt.sql), out.name)>>

\* C12 witness: column_index_throw("VAL") raised on the named statement,
\* whose columns are id, val, val.
C12_Witness ==
  /\ out.op = "column_index_throw"
  /\ out.name = "VAL"
  /\ out.exc = "Exception"
  /\ estmt.sql = "named"
  /\ Statement_column_index(Here, "val").res = <<1>>
  /\ Statement_column_index(Here, "VAL").res = <<0 - 1>>

\* C30: parameter_name(index) returns the name of the parameter at the
\* zero-based position index: for every named parameter position i of a
\* statement, parameter_name(i) is the name of that parameter and
\* parameter_index(parameter_name(i)) = i, whatever the result columns are.
C30_ParameterNameRoundTrip ==
  (/\ out.op = "parameter_name"
   /\ stmt_handle_ # 0
   /\ 0 <= out.index
   /\ out.index < Len(ParamNames(estmt.sql))
   /\ ParamNames(estmt.sql)[out.index + 1] # "")
  => (/\ out.exc = "none"
      /\ out.res = <<ParamNames(estmt.sql)[out.index + 1]>>
      /\ Statement_parameter_index(Here, out.res[1]).res = <<out.index>>)

\* ------------------------------------------------------------------------
\* Specification SpecCb: execute with every shape of callback, with and
\* without a failing step, over a table that holds a row for every id
\* ------------------------------------------------------------------------
\* A callback stops at its MaxStop-th call at the latest.
MaxStop == 2

Callbacks ==
  {Callback(arity, TRUE, 0) : arity \in 1..2}
    \cup {Callback(arity, FALSE, stopAt) : arity \in 1..2, stopAt \in 0..MaxStop}

StepFaults == {"none", "step", "late"}

\* The values a caller passes to execute: for a select, none or a range of
\* ids, up to the one that spans the whole table.
Ranges == {<<IntV(lo), IntV(hi)>> : lo \in 0..MaxId, hi \in 1..(MaxId + 1)}

CbValueLists(sql) == IF IsSelect(sql) THEN {<<>>} \cup Ranges ELSE ValueLists(sql)

\* out of SpecCb for an execute: Called and the callback, the failure, the
\* steps made and the second arguments the callback received.
CalledCb(cb, values, fault, m) ==
  [op |-> "execute_cb", index |-> cb.stopAt, values |-> values,
   pre |-> last_step_result_, exc |-> m.exc, code |-> m.code, calls |-> m.calls,
   rows |-> m.rows, res |-> m.res, name |-> "", args |-> m.args, cb |-> cb,
   fault |-> fault, steps |-> m.steps, codes |-> m.codes]

\* s.execute(cb, values...)
ExecuteCb(cb, values, fault) ==
  /\ Running
  /\ \E m \in {Statement_execute_cb([Here EXCEPT !.fault = fault], cb, values)} :
       /\ out' = CalledCb(cb, values, fault, m)
       /\ Becomes([m EXCEPT !.fault = "none"])

NextCb ==
  \/ \E sql \in Sqls : Prepare(sql)
  \/ \E cb \in Callbacks, values \in CbValueLists(estmt.sql), fault \in StepFaults :
       ExecuteCb(cb, values, fault)
  \/ Reset

SpecCb == InitIdx /\ [][NextCb]_vars

\* ------------------------------------------------------------------------
\* Properties of SpecCb
\* ------------------------------------------------------------------------
\* The execute that just ended made a step that returned neither ROW nor
\* DONE.
StepFailed ==
  /\ out.op = "execute_cb"
  /\ out.steps >= 1
  /\ last_step_result_ \notin {SQLITE_ROW, SQLITE_DONE}

\* The rows of the statement from its k-th on.
RowsFrom(k) ==
  SubSeq(SelectRows(table, estmt.bound[1], estmt.bound[2]), k,
         Len(SelectRows(table, estmt.bound[1], estmt.bound[2])))

\* C13: when a step returns a code other than ROW and DONE, execute with a
\* one-argument callback raises a Sqlite_exception carrying that code and
\* makes no call of the callback for the error; execute with a two-argument
\* callback calls it exactly once with that code, raises nothing, makes no
\* further step and returns that code, whatever the callback returns.
C13_StepErrorReporting ==
  StepFailed =>
    /\ out.steps = Len(out.rows) + 1
    /\ out.cb.arity = 1 =>
         /\ out.exc = "Sqlite_exception"
         /\ out.code = last_step_result_
         /\ Len(out.codes) = Len(out.rows)
    /\ out.cb.arity = 2 =>
         /\ out.exc = "none"
         /\ Len(out.codes) = Len(out.rows) + 1
         /\ out.codes[Len(out.codes)] = last_step_result_
         /\ \A i \in 1..Len(out.rows) : out.codes[i] # last_step_result_
         /\ out.res = <<last_step_result_>>

\* C13 witness: the second step of a select failed after its first row went
\* to a two-argument callback, which was then called with the code.
C13_Witness ==
  /\ StepFailed
  /\ out.cb.arity = 2
  /\ out.fault = "late"
  /\ Len(out.rows) = 1
  /\ out.codes = <<SQLITE_ROW, SQLITE_BUSY>>
  /\ out.res = <<SQLITE_BUSY>>

\* C14: a two-argument callback receives 0 as its second argument in every
\* call made for a row; a non-zero second argument is passed only when the
\* step failed.
C14_ZeroOnSuccess ==
  (out.op = "execute_cb" /\ out.cb.arity = 2) =>
    \A i \in 1..Len(out.rows) : out.codes[i] = 0

C16_FullIteration ==
  (/\ out.op = "execute_cb"
   /\ out.cb.void \/ out.cb.stopAt = 0
   /\ IsSelect(estmt.sql)
   /\ out.exc = "none"
   /\ out.fault = "none") =>
    /\ last_step_result_ = SQLITE_DONE
    /\ out.res = <<SQLITE_DONE>>
    /\ Len(out.codes) = Len(out.rows)
    /\ out.steps = Len(out.rows) + 1
    /\ \E k \in 1..(Len(RowsFrom(1)) + 1) : out.rows = RowsFrom(k)
    /\ out.pre # SQLITE_ROW => out.rows = RowsFrom(1)

\* C16 witness: a void callback received both rows of the table in id order.
C16_Witness ==
  /\ out.op = "execute_cb"
  /\ out.cb = Callback(2, TRUE, 0)
  /\ IsSelect(estmt.sql)
  /\ out.values = <<IntV(0), IntV(MaxId + 1)>>
  /\ Len(out.rows) = MaxId + 1
  /\ out.rows[1].id = 0
  /\ out.rows[2].id = 1
  /\ last_step_result_ = SQLITE_DONE

\* The execute that just ended was stopped by its callback.
StoppedOnRow ==
  /\ out.op = "execute_cb"
  /\ out.exc = "none"
  /\ out.res = <<SQLITE_ROW>>

\* C34: the execute that follows an execute stopped by its callback binds
\* none of its values and does not start the statement again: it goes on
\* with the row after the one the callback stopped on, so that the rows of
\* the two calls are consecutive rows of the result, none twice and none
\* left out, and when no step fails they go up to the row the callback
\* stops on or to the last.
C34_ContinuesAfterStop ==
  [][(StoppedOnRow /\ out'.op = "execute_cb") =>
       /\ estmt'.bound = estmt.bound
       /\ out'.calls = 0
       /\ out'.exc # "Exception"
       /\ estmt.cur + Len(out'.rows) <= Len(RowsFrom(1))
       /\ out.rows \o out'.rows =
            SubSeq(RowsFrom(1), estmt.cur - Len(out.rows) + 1,
                   estmt.cur + Len(out'.rows))
       /\ out'.fault = "none" =>
            out'.rows = Delivered(RowsFrom(estmt.cur + 1), out'.cb.stopAt)]_vars

\* C34 witness: an execute given an empty range, made on a select of the
\* whole table that was stopped on its first row, handed over the second
\* row and ended on SQLITE_DONE with the range it had.
C34_Witness ==
  /\ out.op = "execute_cb"
  /\ out.pre = SQLITE_ROW
  /\ out.values = <<IntV(1), IntV(1)>>
  /\ estmt.bound = <<IntV(0), IntV(MaxId + 1)>>
  /\ Len(out.rows) >= 1
  /\ out.rows[1].id = 1
  /\ out.res = <<SQLITE_DONE>>

\* The execute that just ended made a step that failed: it raised the code,
\* or gave it to the two-argument callback and returned it.
FailedWith(code) ==
  /\ out.op = "execute_cb"
  /\ out.steps >= 1
  /\ \/ out.exc = "Sqlite_exception" /\ out.code = code
     \/ /\ out.exc = "none"
        /\ out.cb.arity = 2
        /\ out.res = <<code>>
        /\ code \notin {SQLITE_ROW, SQLITE_DONE}

StepErrors == {SQLITE_BUSY, SQLITE_CONSTRAINT}

\* C35: after an execute whose step failed the marker holds the code of the
\* failure; the execute that follows makes no bind call, leaves the bound
\* values as they are and steps the engine; and a marker that holds a
\* failure code becomes unset only by reset() or by the move assignment of
\* another statement.
C35_NoRebindAfterFailure ==
  [][/\ \A code \in StepErrors :
          /\ FailedWith(code) => last_step_result_ = code
          /\ (FailedWith(code) /\ out'.op = "execute_cb") =>
               /\ out'.calls = 0
               /\ estmt'.bound = estmt.bound
               /\ out'.steps >= 1
     /\ (last_step_result_ \in StepErrors /\ last_step_result_' = Unset) =>
          out'.op \in {"reset", "prepare"}]_vars

\* C35 witness: an insert failed on the constraint and the execute that
\* followed, given other values, failed on it again with the values the
\* statement had; the failure went to a two-argument callback.
C35_Witness ==
  /\ out.op = "execute_cb"
  /\ out.pre = SQLITE_CONSTRAINT
  /\ out.steps = 1
  /\ out.cb.arity = 2
  /\ out.res = <<SQLITE_CONSTRAINT>>
  /\ estmt.sql = "insert"
  /\ out.values = <<IntV(1), TextV("b")>>
  /\ estmt.bound = <<IntV(0), TextV("a")>>

\* ------------------------------------------------------------------------
\* Connection: an operation maps a connection c to the connection after it.
\*   h         Connection::handle_
\*   db        the database
\*   exc       the exception the operation raised (NoExc when it returned)
\*   prepared  the statements the operation prepared
\*   steps     engine steps made
\*   rbExc     the exception the ROLLBACK of with_rollback_on_error raised
\*   res       the value returned
\*   made      the statement handles the engine made for the operation
\*   finalized the calls of sqlite3_finalize on these handles
\*   queries   the calls of sqlite3_get_autocommit
\* An exception is [type, code, nested]; nested holds the exception that
\* std::throw_with_nested captured, if any.
\* ------------------------------------------------------------------------
Exc(type, code) == [type |-> type, code |-> code, nested |-> <<>>]

NoExc == Exc("none", 0)

\* std::throw_with_nested(Exception{...}) in a handler of `current`.
throw_with_nested(type, current) ==
  [type |-> type, code |-> 0, nested |-> <<current>>]

ConnMachine(h, db) ==
  [h |-> h, db |-> db, exc |-> NoExc, prepared |-> <<>>, steps |-> 0,
   rbExc |-> NoExc, res |-> <<>>, made |-> 0, finalized |-> 0, queries |-> 0]

\* Connection::execute: the connection c after prepare(sql).execute(...)
\* ended as the statement machine m.
Executed(c, m) ==
  [c EXCEPT !.db = m.db, !.steps = c.steps + m.steps,
            !.exc = IF m.exc = "none" THEN NoExc ELSE Exc(m.exc, m.code)]

\* A variant of the constructor that does not look at the handle.
Statement_Statement_unchecked(c, sql, fault) ==
  IF fault = "prepare"
    THEN [c EXCEPT !.prepared = Append(c.prepared, sql),
                   !.exc = Exc("Sqlite_exception", SQLITE_NOMEM)]
    ELSE [c EXCEPT !.prepared = Append(c.prepared, sql), !.made = c.made + 1]

\* Statement::Statement(sqlite3* handle, sql, flags), handle being that of
\* the connection c: the connection after the construction.
Statement_Statement(c, sql, fault) ==
  IF c.h = 0 THEN [c EXCEPT !.exc = Exc("Exception", 0)]
  ELSE IF fault = "prepare"
    THEN [c EXCEPT !.prepared = Append(c.prepared, sql),
                   !.exc = Exc("Sqlite_exception", SQLITE_NOMEM)]
    ELSE [c EXCEPT !.prepared = Append(c.prepared, sql), !.made = c.made + 1]

\* A variant in which the temporary statement is never finalized.
TemporaryDestroyed_leaks(c) == c

\* ~Statement of the temporary that prepare(sql) returned, at the end of the
\* full expression or while the exception unwinds: close() finalizes it.
TemporaryDestroyed(c) == [c EXCEPT !.finalized = c.finalized + 1]

\* prepare(sql).execute(callback, values...) on the connection p that
\* Statement::Statement left.
ExecuteTemporary(p, cb, sql, values, fault) ==
  IF p.exc # NoExc THEN p
  ELSE TemporaryDestroyed(
         Executed(p, Statement_execute_cb(
                       Machine(1, Unset, sqlite3_prepare_v3(sql), p.db, fault),
                       cb, values)))

\* Connection::execute(callback, sql, values...)
Connection_execute_cb(c, cb, sql, values, fault) ==
  IF c.h = 0 THEN [c EXCEPT !.exc = Exc("Exception", 0)]
  ELSE ExecuteTemporary(Statement_Statement(c, sql, fault), cb, sql, values, fault)

\* Connection::execute(sql, values...): execute(callback, sql, values...)
\* with the callback that always returns true.
Connection_execute(c, sql, values, fault) ==
  Connection_execute_cb(c, Callback(1, FALSE, 0), sql, values, fault)

\* The statement of p, if one was constructed, is destroyed unused.
ExecuteNothing(p) == IF p.exc # NoExc THEN p ELSE TemporaryDestroyed(p)

\* c.prepare(sql); as an expression statement: Connection::prepare and the
\* destruction of the Statement it returned.
Connection_prepare_discarded(c, sql, fault) ==
  ExecuteNothing(Statement_Statement(c, sql, fault))

\* A variant of is_transaction_active that returns the autocommit flag.
Connection_is_transaction_active_call_flag(c) ==
  IF c.h = 0 THEN [c EXCEPT !.exc = Exc("Exception", 0)]
  ELSE [c EXCEPT !.queries = c.queries + 1,
                 !.res = <<sqlite3_get_autocommit(c.db) # 0>>]

\* Connection::is_transaction_active as a call: the connection after it.
Connection_is_transaction_active_call(c) ==
  IF c.h = 0 THEN [c EXCEPT !.exc = Exc("Exception", 0)]
  ELSE [c EXCEPT !.queries = c.queries + 1,
                 !.res = <<sqlite3_get_autocommit(c.db) = 0>>]

\* Connection::is_transaction_active, on a connection that has a handle
Connection_is_transaction_active(c) == sqlite3_get_autocommit(c.db) = 0

\* A variant that wraps the error also when ROLLBACK succeeded.
AfterRollback_wraps(r, E) ==
  [r EXCEPT !.rbExc = r.exc, !.exc = throw_with_nested("Exception", r.exc)]

\* with_rollback_on_error: what is raised once execute("rollback") ended as
\* the connection r: throw_with_nested in its handler, or `throw;` of E.
AfterRollback(r, E) ==
  IF r.exc # NoExc
  THEN [r EXCEPT !.rbExc = r.exc, !.exc = throw_with_nested("Exception", r.exc)]
  ELSE [r EXCEPT !.exc = E]

\* A variant of the handler that rolls back when no transaction is active.
OnError_inverted(c, E, fault) ==
  IF c.h = 0 THEN [c EXCEPT !.exc = Exc("Exception", 0)]
  ELSE IF ~Connection_is_transaction_active(c)
    THEN AfterRollback(Connection_execute(c, "rollback", <<>>, fault), E)
    ELSE [c EXCEPT !.exc = E]

\* A variant of the handler that rolls back without asking whether a
\* transaction is active.
OnError_always(c, E, fault) ==
  IF c.h = 0 THEN [c EXCEPT !.exc = Exc("Exception", 0)]
  ELSE AfterRollback(Connection_execute(c, "rollback", <<>>, fault), E)

\* Connection::with_rollback_on_error: the handler catch (...) of the error E
\* the callback raised.  is_transaction_active raises on a null handle.
OnError(c, E, fault) ==
  IF c.h = 0 THEN [c EXCEPT !.exc = Exc("Exception", 0)]
  ELSE IF Connection_is_transaction_active(c)
    THEN AfterRollback(Connection_execute(c, "rollback", <<>>, fault), E)
    ELSE [c EXCEPT !.exc = E]

\* Connection::with_rollback_on_error(callback), from the point where the
\* callback ends: it returned ret (E = NoExc) or raised E.
Connection_with_rollback_on_error(c, E, ret, fault) ==
  IF E = NoExc THEN [c EXCEPT !.res = ret] ELSE OnError(c, E, fault)

\* ------------------------------------------------------------------------
\* Specification SpecTxn: statements run through Connection::execute,
\* outside and inside a unit of work of with_rollback_on_error
\* ------------------------------------------------------------------------
Faults == {"none", "prepare", "step"}

\* The errors a unit of work raises by itself.
UserErrors == {Exc("user", 0)}

\* The values a unit of work returns.
Rets == {<<"r1">>, <<"r2">>}

TxnValueLists(sql) ==
  IF sql = "insert" THEN {<<a, b>> : a \in Ids, b \in {TextV("a")}} ELSE {<<>>}

\* out of SpecTxn: the call and its outcome; for with_rollback_on_error,
\*   E       the error the unit of work raised (NoExc when it returned)
\*   ret     the value the unit of work returned
\*   active  whether a transaction was active when the unit of work ended
\*   began   whether the unit of work began that transaction
\*   writes  the ids of the rows the unit of work inserted in it
\*   fault   the engine failure met by the ROLLBACK
\*   h       Connection::handle_ when the call was made
NoTxnCall ==
  [op |-> "none", sql |-> "", E |-> NoExc, ret |-> <<>>, active |-> FALSE,
   began |-> FALSE, writes |-> {}, fault |-> "none", raised |-> NoExc,
   rbExc |-> NoExc, prepared |-> <<>>, steps |-> 0, res |-> <<>>,
   h |-> 0, made |-> 0, finalized |-> 0, queries |-> 0]

Conn == ConnMachine(conn_handle_, Db(table, autocommit, saved))

ConnBecomes(c) ==
  /\ conn_handle_' = c.h
  /\ table' = c.db.tbl
  /\ autocommit' = c.db.ac
  /\ saved' = c.db.saved
  /\ UNCHANGED stmtVars
  /\ UNCHANGED dataVars
  /\ UNCHANGED lifeVars

InitTxn ==
  /\ table = {}
  /\ autocommit = TRUE
  /\ saved = {}
  /\ conn_handle_ = 1
  /\ stmt_handle_ = 0
  /\ last_step_result_ = Unset
  /\ estmt = NoStmt
  /\ out = NoTxnCall
  /\ unit = NoUnit
  /\ NoData
  /\ NoLife

\* The end of with_rollback_on_error around a unit of work that, on the
\* connection c, returned ret or raised E.
Leave(c, E, ret, rfault) ==
  \E r \in {Connection_with_rollback_on_error(c, E, ret, rfault)} :
  /\ out' = [NoTxnCall EXCEPT !.op = "with_rollback_on_error", !.E = E, !.ret = ret,
               !.active = ~c.db.ac, !.began = unit.began, !.writes = unit.writes,
               !.fault = rfault, !.raised = r.exc, !.rbExc = r.rbExc,
               !.prepared = r.prepared, !.steps = r.steps, !.res = r.res,
               !.h = c.h, !.made = r.made, !.finalized = r.finalized,
               !.queries = r.queries]
  /\ unit' = NoUnit
  /\ ConnBecomes(r)

\* What a unit of work knows of its transaction after a statement ran.
UnitAfter(u, sql, values, ok) ==
  IF ~ok THEN u
  ELSE IF sql = "begin" THEN [u EXCEPT !.began = TRUE, !.writes = {}]
  ELSE IF sql \in {"commit", "rollback"} THEN [u EXCEPT !.began = FALSE, !.writes = {}]
  ELSE IF u.began THEN [u EXCEPT !.writes = @ \cup {values[1][1]}]
  ELSE u

\* c.with_rollback_on_error(callback): the callback starts.
Enter ==
  /\ ~unit.on
  /\ unit' = [NoUnit EXCEPT !.on = TRUE]
  /\ out' = [NoTxnCall EXCEPT !.op = "enter"]
  /\ UNCHANGED <<table, autocommit, saved, conn_handle_>>
  /\ UNCHANGED stmtVars
  /\ UNCHANGED dataVars
  /\ UNCHANGED lifeVars

\* c.execute(sql, values...) outside a unit of work, or inside one that
\* handles the error itself when the call raises.
ConnExecute(sql, values, fault) ==
  \E c \in {Connection_execute(Conn, sql, values, fault)} :
  /\ out' = [NoTxnCall EXCEPT !.op = "execute", !.sql = sql, !.fault = fault,
               !.raised = c.exc, !.prepared = c.prepared, !.steps = c.steps,
               !.h = conn_handle_, !.made = c.made, !.finalized = c.finalized]
  /\ unit' = IF unit.on THEN UnitAfter(unit, sql, values, c.exc = NoExc) ELSE unit
  /\ ConnBecomes(c)

\* c.execute(sql, values...) raises inside the unit of work, which lets the
\* error out.
UnitFails(sql, values, fault, rfault) ==
  \E c \in {Connection_execute(Conn, sql, values, fault)} :
  /\ unit.on
  /\ c.exc # NoExc
  /\ Leave([ConnMachine(c.h, c.db) EXCEPT !.steps = 0], c.exc, <<>>, rfault)

\* The unit of work raises an error of its own.
UnitThrows(E, rfault) ==
  /\ unit.on
  /\ Leave(Conn, E, <<>>, rfault)

\* The unit of work returns ret.
UnitReturns(ret) ==
  /\ unit.on
  /\ Leave(Conn, NoExc, ret, "none")

NextTxn ==
  \/ Enter
  \/ \E sql \in TxnSqls \cup {"insert"}, fault \in Faults :
       \E values \in TxnValueLists(sql) : ConnExecute(sql, values, fault)
  \/ \E sql \in TxnSqls \cup {"insert"}, fault \in Faults, rfault \in Faults :
       \E values \in TxnValueLists(sql) : UnitFails(sql, values, fault, rfault)
  \/ \E E \in UserErrors, rfault \in Faults : UnitThrows(E, rfault)
  \/ \E ret \in Rets : UnitReturns(ret)

SpecTxn == InitTxn /\ [][NextTxn]_vars

\* ------------------------------------------------------------------------
\* Properties of SpecTxn
\* ------------------------------------------------------------------------
\* An exception e is visible in the exception x that reached the caller.
RECURSIVE Visible(_, _)
Visible(x, e) ==
  \/ x.type = e.type /\ x.code = e.code
  \/ x.nested # <<>> /\ Visible(x.nested[1], e)

Raised == out.op = "with_rollback_on_error" /\ out.E # NoExc

RollbacksPrepared == Len(SelectSeq(out.prepared, LAMBDA q : q = "rollback"))

\* C2: when the unit of work raised E while a transaction was active and
\* the ROLLBACK failed with R, the exception that reaches the caller is E
\* with R nested in it: both E and R are visible to the caller.
C2_BothErrorsVisible ==
  (Raised /\ out.active /\ out.rbExc # NoExc) =>
    /\ Visible(out.raised, out.E)
    /\ Visible(out.raised, out.rbExc)

\* C3: when the unit of work raised E while a transaction was active and
\* the ROLLBACK succeeded, the caller receives exactly E.
C3_RethrownUnchanged ==
  (Raised /\ out.active /\ out.fault = "none") => out.raised = out.E

\* C3 witness: a unit of work began a transaction and raised an error of
\* its own, the ROLLBACK succeeded and that error reached the caller.
C3_Witness ==
  /\ Raised
  /\ out.active
  /\ out.began
  /\ out.fault = "none"
  /\ out.E = Exc("user", 0)
  /\ out.raised = Exc("user", 0)
  /\ out.prepared = <<"rollback">>
  /\ autocommit

C5_RollbackOnlyOnError ==
  out.op = "with_rollback_on_error" =>
    /\ RollbacksPrepared = (IF out.E # NoExc /\ out.active THEN 1 ELSE 0)
    /\ (out.E # NoExc /\ ~out.active) =>
         /\ out.raised = out.E
         /\ out.prepared = <<>>
         /\ out.steps = 0
         /\ autocommit
    /\ out.E = NoExc =>
         /\ out.raised = NoExc
         /\ out.prepared = <<>>
         /\ out.steps = 0
         /\ out.res = out.ret
         /\ autocommit = ~out.active

\* C5 witness: a unit of work raised with no transaction active; the error
\* reached the caller and no statement was prepared.
C5_Witness ==
  /\ Raised
  /\ ~out.active
  /\ out.raised = out.E
  /\ out.prepared = <<>>

\* ------------------------------------------------------------------------
\* Specification SpecConn: the calls of SpecTxn and prepare, execute with a
\* callback, is_transaction_active and close, on a connection that is open
\* or has no handle
\* ------------------------------------------------------------------------
\* Connection::close with every statement finalized: sqlite3_close succeeds
\* (it does nothing for a null handle) and the in-memory database is gone.
Connection_close_idle(c) == [c EXCEPT !.h = 0, !.db = Db({}, TRUE, {})]

\* Connection(ref, flags) for a new in-memory database, move-assigned to a
\* connection that has no handle.
Connection_Connection(c) == [c EXCEPT !.h = 1, !.db = Db({}, TRUE, {})]

\* The callbacks passed to Connection::execute: one that sees every row, one
\* that stops at the first row and one that raises at the first row.
ConnCallbacks ==
  {Callback(1, FALSE, 0), Callback(1, FALSE, 1), Throwing(Callback(1, TRUE, 0), 1)}

\* out of a call that is made on the connection as it is and ended as r.
ConnCalled(op, sql, fault, r) ==
  [NoTxnCall EXCEPT !.op = op, !.sql = sql, !.fault = fault, !.raised = r.exc,
     !.prepared = r.prepared, !.steps = r.steps, !.res = r.res,
     !.h = conn_handle_, !.made = r.made, !.finalized = r.finalized,
     !.queries = r.queries]

\* c.execute(callback, "select ...", lo, hi)
ConnExecuteCb(cb, values, fault) ==
  \E r \in {Connection_execute_cb(Conn, cb, "select", values, fault)} :
  /\ out' = ConnCalled("execute_cb", "select", fault, r)
  /\ UNCHANGED unit
  /\ ConnBecomes(r)

\* c.prepare(sql);
ConnPrepares(sql, fault) ==
  \E r \in {Connection_prepare_discarded(Conn, sql, fault)} :
  /\ out' = ConnCalled("prepare", sql, fault, r)
  /\ UNCHANGED unit
  /\ ConnBecomes(r)

\* c.is_transaction_active()
ConnIsTransactionActive ==
  \E r \in {Connection_is_transaction_active_call(Conn)} :
  /\ out' = ConnCalled("is_transaction_active", "", "none", r)
  /\ UNCHANGED unit
  /\ ConnBecomes(r)

\* c.close()
ConnCloses ==
  \E r \in {Connection_close_idle(Conn)} :
  /\ out' = ConnCalled("close", "", "none", r)
  /\ UNCHANGED unit
  /\ ConnBecomes(r)

\* c = Connection{"", flags}
ConnReopens ==
  /\ conn_handle_ = 0
  /\ \E r \in {Connection_Connection(Conn)} :
       /\ out' = ConnCalled("open", "", "none", r)
       /\ UNCHANGED unit
       /\ ConnBecomes(r)

NextConn ==
  \/ Enter
  \/ \E sql \in TxnSqls \cup {"insert"}, fault \in Faults :
       \E values \in TxnValueLists(sql) : ConnExecute(sql, values, fault)
  \/ \E sql \in TxnSqls \cup {"insert"}, fault \in Faults, rfault \in Faults :
       \E values \in TxnValueLists(sql) : UnitFails(sql, values, fault, rfault)
  \/ \E E \in UserErrors, rfault \in Faults : UnitThrows(E, rfault)
  \/ \E ret \in Rets : UnitReturns(ret)
  \/ \E cb \in ConnCallbacks, fault \in Faults :
       ConnExecuteCb(cb, <<IntV(0), IntV(MaxId + 1)>>, fault)
  \/ \E sql \in TxnSqls \cup {"insert"}, fault \in Faults : ConnPrepares(sql, fault)
  \/ ConnIsTransactionActive
  \/ ConnCloses
  \/ ConnReopens

SpecConn == InitTxn /\ [][NextConn]_vars

\* ------------------------------------------------------------------------
\* Properties of SpecConn
\* ------------------------------------------------------------------------
\* The operations of Connection other than move and close.
HandleOps ==
  {"prepare", "execute", "execute_cb", "is_transaction_active",
   "with_rollback_on_error"}

\* The last call reached the engine in no way.
NoEngineCall ==
  /\ out.prepared = <<>>
  /\ out.steps = 0
  /\ out.made = 0
  /\ out.queries = 0

\* The claim C21 as stated: prepare, execute (both overloads),
\* is_transaction_active and with_rollback_on_error, called on a connection
\* whose handle is null, raise Exception and make no engine call;
\* with_rollback_on_error does so whether or not the unit of work raises.
C21_AsStated ==
  (out.op \in HandleOps /\ out.h = 0) =>
    /\ out.raised = Exc("Exception", 0)
    /\ NoEngineCall

\* C21: prepare, execute (both overloads) and is_transaction_active, called
\* on a connection whose handle is null, raise Exception and make no engine
\* call; with_rollback_on_error on such a connection makes no engine call
\* either and raises Exception when the unit of work raised, while it
\* returns the unit's value when the unit of work returned.
C21_NullHandleRejected ==
  (out.op \in HandleOps /\ out.h = 0) =>
    /\ NoEngineCall
    /\ (out.op # "with_rollback_on_error" \/ out.E # NoExc) =>
         out.raised = Exc("Exception", 0)
    /\ (out.op = "with_rollback_on_error" /\ out.E = NoExc) =>
         /\ out.raised = NoExc
         /\ out.res = out.ret

\* C21 witness: a unit of work raised an error of its own on a connection
\* that was closed, and the caller received the precondition error.
C21_Witness ==
  /\ out.op = "with_rollback_on_error"
  /\ out.h = 0
  /\ out.E = Exc("user", 0)
  /\ out.raised = Exc("Exception", 0)
  /\ conn_handle_ = 0

\* C25: the statement that Connection::execute prepares is finalized before
\* the call returns or raises, so that the engine holds as many open
\* statement handles after the call as before it, whether the call returned,
\* the prepare failed, a step failed or the callback raised.
C25_OneShotExecute ==
  out.op \in {"execute", "execute_cb"} =>
    /\ out.finalized = out.made
    /\ out.made = (IF out.h # 0 /\ out.fault # "prepare" THEN 1 ELSE 0)

\* C25 witness: the callback of an execute raised at the first row, and the
\* one statement made for the call was finalized.
C25_Witness ==
  /\ out.op = "execute_cb"
  /\ out.raised = Exc("user", 0)
  /\ out.steps = 1
  /\ out.made = 1
  /\ out.finalized = 1

\* Whether a transaction is active according to is_transaction_active.
TxnActive ==
  /\ conn_handle_ # 0
  /\ Connection_is_transaction_active_call(Conn).res = <<TRUE>>

\* C27: is_transaction_active is false on a freshly opened connection,
\* becomes true when a BEGIN has been executed, false again when a COMMIT or
\* a ROLLBACK has been executed, and does not change with any other call on
\* the open connection; the value a call returns is that state.
C27_TracksTransaction ==
  [][/\ out'.op = "open" => ~TxnActive'
     /\ (out'.op = "execute" /\ out'.raised = NoExc /\ out'.sql = "begin")
          => TxnActive'
     /\ (out'.op = "execute" /\ out'.raised = NoExc
           /\ out'.sql \in {"commit", "rollback"}) => ~TxnActive'
     /\ (out'.op = "with_rollback_on_error" /\ out'.prepared = <<"rollback">>
           /\ out'.rbExc = NoExc /\ out'.h # 0) => ~TxnActive'
     /\ (\/ out'.op \in {"execute_cb", "prepare", "is_transaction_active", "enter"}
         \/ out'.op = "execute" /\ (out'.raised # NoExc \/ out'.sql = "insert")
         \/ out'.op = "with_rollback_on_error" /\ out'.prepared = <<>>)
          => (TxnActive' = TxnActive)
     /\ (out'.op = "is_transaction_active" /\ out'.raised = NoExc)
          => out'.res = <<TxnActive>>]_vars

\* C27 witness: is_transaction_active returned true after a BEGIN.
C27_Witness ==
  /\ out.op = "is_transaction_active"
  /\ out.res = <<TRUE>>
  /\ ~autocommit
  /\ conn_handle_ # 0

\* ------------------------------------------------------------------------
\* Data<T, E>: a descriptor is [alive, data, size, deleter]; data is a buffer
\* (0 = null) and deleter is "STATIC", "TRANSIENT" or the release function
\* "free".  A buffer is [state, frees, owned, released]:
\*   state     "unused", "live" or "gone" (its storage was destroyed)
\*   frees     the calls of the release function on it
\*   owned     it was given to a Data together with a release function
\*   released  Data::release handed it to the caller
\* The engine's binding is [kind, buf, len, destr, rvalue]: kind is "null",
\* "copy" (the engine's private copy of buf's bytes) or "ptr" (a pointer to
\* buf); rvalue tells that the bound value was passed as an rvalue.
\* An operation maps a world w = [descs, bufs, binding] to the world after.
\* ------------------------------------------------------------------------
\* Data::is_data_owner
is_data_owner(d) == d.deleter # "STATIC" /\ d.deleter # "TRANSIENT"

\* deleter_(data_): a call of the release function.
Invoke(bs, b) ==
  IF b = 0 THEN bs ELSE [bs EXCEPT ![b].frees = @ + 1, ![b].state = "gone"]

\* Data::~Data applied to the descriptor d
Destructed(bs, d) == IF is_data_owner(d) THEN Invoke(bs, d.data) ELSE bs

\* Data::~Data
Data_destroy(w, x) ==
  [w EXCEPT !.bufs = Destructed(w.bufs, w.descs[x]), !.descs[x] = DeadData]

\* Data(data, size, deleter)
Data_construct(w, x, b, del) ==
  [w EXCEPT !.descs[x] = [alive |-> TRUE, data |-> b, size |-> BufLen(b),
                          deleter |-> del],
            !.bufs[b].state = "live",
            !.bufs[b].owned = (del = "free")]

\* A variant of the move constructor that leaves rhs as it was.
MovedFrom_keeps(d) == d

\* Data(Data&& rhs): what is left in rhs
MovedFrom(d) == EmptyData

\* Data(Data&& rhs)
Data_move_construct(w, dst, src) ==
  [w EXCEPT !.descs[dst] = w.descs[src], !.descs[src] = MovedFrom(w.descs[src])]

\* Data::swap
Data_swap(w, a, b) ==
  [w EXCEPT !.descs[a] = w.descs[b], !.descs[b] = w.descs[a]]

\* Data::operator=(Data&& rhs) on the descriptors d and rhs (two objects):
\* tmp{std::move(rhs)}, swap(tmp), ~tmp.  [d, rhs, bufs] afterwards.
MoveAssigned(bs, d, rhs) ==
  [d |-> rhs, rhs |-> MovedFrom(rhs), bufs |-> Destructed(bs, d)]

\* Data::operator=(Data&& rhs)
Data_move_assign(w, dst, src) ==
  IF dst = src THEN w
  ELSE LET r == MoveAssigned(w.bufs, w.descs[dst], w.descs[src]) IN
       [w EXCEPT !.descs[dst] = r.d, !.descs[src] = r.rhs, !.bufs = r.bufs]

\* Data::release: deleter_ = SQLITE_STATIC, Data{}.swap(*this); the buffer
\* goes to the caller.
Data_release(w, x) ==
  LET b == w.descs[x].data
      tmp == [w.descs[x] EXCEPT !.deleter = "STATIC"]
  IN [w EXCEPT !.descs[x] = EmptyData,
               !.bufs = IF b = 0 THEN Destructed(w.bufs, tmp)
                        ELSE [Destructed(w.bufs, tmp) EXCEPT
                                ![b].released = w.bufs[b].owned]]

\* Engine: the destructor of a binding that is replaced or dropped.
Unbound(bs, bnd) ==
  IF bnd.kind = "ptr" /\ bnd.destr = "free" THEN Invoke(bs, bnd.buf) ELSE bs

\* Engine: sqlite3_bind_blob64 / sqlite3_bind_text64 (ptr, n, destr).  A null
\* ptr binds NULL and the destructor is not called; SQLITE_TRANSIENT makes
\* the engine copy the bytes before it returns.
sqlite3_bind_text64(w, ptr, n, destr, rvalue) ==
  [w EXCEPT !.bufs = Unbound(w.bufs, w.binding),
            !.binding =
              IF ptr = 0 THEN [NoBinding EXCEPT !.rvalue = rvalue]
              ELSE [kind |-> IF destr = "TRANSIENT" THEN "copy" ELSE "ptr",
                    buf |-> ptr, len |-> n, destr |-> destr, rvalue |-> rvalue]]

\* Engine: sqlite3_finalize drops the binding.
sqlite3_finalize(w) ==
  [w EXCEPT !.bufs = Unbound(w.bufs, w.binding), !.binding = NoBinding]

\* Conversions<Data<T, E>>::bind: the destructor chosen for value, and value
\* after the choice.  [destr, value, bufs].
DataDestr(bs, value, rvalue) ==
  IF rvalue /\ is_data_owner(value)
  THEN LET r == MoveAssigned(bs, value, EmptyData) IN
       [destr |-> value.deleter, value |-> r.d, bufs |-> r.bufs]
  ELSE [destr |-> "STATIC", value |-> value, bufs |-> bs]

\* Conversions<Data<T, E>>::bind(handle, index, value)
Conversions_Data_bind(w, x, rvalue) ==
  LET c == DataDestr(w.bufs, w.descs[x], rvalue) IN
  sqlite3_bind_text64([w EXCEPT !.descs[x] = c.value, !.bufs = c.bufs],
                      c.value.data, c.value.size, c.destr, rvalue)

\* Conversions<std::string | std::string_view>::bind: the destructor chosen.
StringDestr(rvalue) == IF rvalue THEN "TRANSIENT" ELSE "STATIC"

\* Conversions<std::string | std::string_view>::bind(handle, index, value),
\* the characters of value being buffer b.
Conversions_string_bind(w, b, rvalue) ==
  sqlite3_bind_text64(w, b, BufLen(b), StringDestr(rvalue), rvalue)

\* ------------------------------------------------------------------------
\* Specification SpecData: descriptors x and y, the buffers, one parameter
\* ------------------------------------------------------------------------
\* out of SpecData: the call; for a bind, what the value was (its buffer,
\* whether it owned it) and what the engine received.
NoDataCall ==
  [op |-> "none", type |-> "", rvalue |-> FALSE, wasOwner |-> FALSE, buf |-> 0,
   ptr |-> 0, len |-> 0, destr |-> "STATIC", liveAtBind |-> FALSE, value |-> 0]

InitData ==
  /\ table = {}
  /\ autocommit = TRUE
  /\ saved = {}
  /\ conn_handle_ = 1
  /\ stmt_handle_ = 0
  /\ last_step_result_ = Unset
  /\ estmt = NoStmt
  /\ out = NoDataCall
  /\ unit = NoUnit
  /\ NoData
  /\ NoLife

World == [descs |-> descs, bufs |-> bufs, binding |-> binding]

WorldBecomes(w) ==
  /\ descs' = w.descs
  /\ bufs' = w.bufs
  /\ binding' = w.binding
  /\ UNCHANGED stmtVars
  /\ UNCHANGED connVars
  /\ UNCHANGED lifeVars

\* A bind call: the value (its buffer, whether it owned it) and the
\* arguments (ptr, len, destr) the engine received; bs are the buffers at
\* that moment.
Received(type, rvalue, wasOwner, buf, ptr, len, destr, bs) ==
  [NoDataCall EXCEPT !.op = "bind", !.type = type, !.rvalue = rvalue,
     !.wasOwner = wasOwner, !.buf = buf, !.ptr = ptr, !.len = len,
     !.destr = destr, !.liveAtBind = (ptr # 0 /\ bs[ptr].state = "live")]

\* Data x{b, BufLen(b), del}: a new descriptor of a buffer not yet used.
Construct(x, b, del) ==
  /\ ~descs[x].alive
  /\ bufs[b].state = "unused"
  /\ out' = [NoDataCall EXCEPT !.op = "construct"]
  /\ WorldBecomes(Data_construct(World, x, b, del))

\* Data x{std::move(y)}
MoveConstruct(dst, src) ==
  /\ ~descs[dst].alive
  /\ descs[src].alive
  /\ out' = [NoDataCall EXCEPT !.op = "move_construct"]
  /\ WorldBecomes(Data_move_construct(World, dst, src))

\* x = std::move(y)
MoveAssign(dst, src) ==
  /\ descs[dst].alive
  /\ descs[src].alive
  /\ out' = [NoDataCall EXCEPT !.op = "move_assign"]
  /\ WorldBecomes(Data_move_assign(World, dst, src))

\* x.swap(y)
Swap(a, b) ==
  /\ descs[a].alive
  /\ descs[b].alive
  /\ out' = [NoDataCall EXCEPT !.op = "swap"]
  /\ WorldBecomes(Data_swap(World, a, b))

\* x.release()
Release(x) ==
  /\ descs[x].alive
  /\ out' = [NoDataCall EXCEPT !.op = "release", !.buf = descs[x].data]
  /\ WorldBecomes(Data_release(World, x))

\* x goes out of scope.
Destroy(x) ==
  /\ descs[x].alive
  /\ out' = [NoDataCall EXCEPT !.op = "destroy", !.buf = descs[x].data]
  /\ WorldBecomes(Data_destroy(World, x))

\* s.bind(0, x) or s.bind(0, std::move(x))
BindData(x, rvalue) ==
  LET w == Conversions_Data_bind(World, x, rvalue) IN
  /\ descs[x].alive
  /\ descs[x].data # 0 => bufs[descs[x].data].state = "live"
  /\ LET c == DataDestr(bufs, descs[x], rvalue) IN
     out' = Received("Data", rvalue, is_data_owner(descs[x]), descs[x].data,
                     c.value.data, c.value.size, c.destr, c.bufs)
  /\ WorldBecomes(w)

\* s.bind(0, str) or s.bind(0, std::move(str)) for a std::string or a
\* std::string_view whose characters are the caller's buffer b.
BindString(type, b, rvalue) ==
  LET w == Conversions_string_bind(World, b, rvalue) IN
  /\ bufs[b].state = "live"
  /\ ~bufs[b].owned
  /\ out' = Received(type, rvalue, FALSE, b, b, BufLen(b), StringDestr(rvalue),
                     bufs)
  /\ WorldBecomes(w)

\* The caller destroys the storage of a buffer it manages itself, once no
\* descriptor refers to it.
CallerDestroys(b) ==
  /\ bufs[b].state = "live"
  /\ ~bufs[b].owned
  /\ \A x \in DataNames : descs[x].alive => descs[x].data # b
  /\ out' = [NoDataCall EXCEPT !.op = "caller_destroys", !.buf = b]
  /\ WorldBecomes([World EXCEPT !.bufs[b].state = "gone"])

\* A step of the statement reads the bound bytes: the engine's copy, or the
\* buffer it points to; reading destroyed storage is undefined and gives
\* the old bytes or anything else (0).
EngineReads(u) ==
  /\ binding.kind # "null"
  /\ out' = [NoDataCall EXCEPT !.op = "read", !.rvalue = binding.rvalue,
               !.buf = binding.buf,
               !.value = IF binding.kind = "copy" \/ bufs[binding.buf].state = "live"
                         THEN binding.buf ELSE u]
  /\ WorldBecomes(World)

\* The statement is finalized.
EngineFinalizes ==
  /\ binding # NoBinding
  /\ out' = [NoDataCall EXCEPT !.op = "finalize"]
  /\ WorldBecomes(sqlite3_finalize(World))

NextData ==
  \/ \E x \in DataNames, b \in Bufs, del \in Deleters : Construct(x, b, del)
  \/ \E dst \in DataNames, src \in DataNames : MoveConstruct(dst, src)
  \/ \E dst \in DataNames, src \in DataNames : MoveAssign(dst, src)
  \/ \E a \in DataNames, b \in DataNames : Swap(a, b)
  \/ \E x \in DataNames : Release(x)
  \/ \E x \in DataNames : Destroy(x)
  \/ \E x \in DataNames, rvalue \in BOOLEAN : BindData(x, rvalue)
  \/ \E type \in {"string", "string_view"}, b \in Bufs, rvalue \in BOOLEAN :
       BindString(type, b, rvalue)
  \/ \E b \in Bufs : CallerDestroys(b)
  \/ \E u \in {0} \cup Bufs : EngineReads(u)
  \/ EngineFinalizes

SpecData == InitData /\ [][NextData]_vars

\* ------------------------------------------------------------------------
\* Properties of SpecData
\* ------------------------------------------------------------------------
\* No descriptor is left and the engine holds no release function.
AllGone ==
  /\ \A x \in DataNames : ~descs[x].alive
  /\ ~(binding.kind = "ptr" /\ binding.destr = "free")

C7_ZeroCopyHandOff ==
  (out.op = "bind" /\ out.type = "Data" /\ out.rvalue /\ out.wasOwner) =>
    /\ out.ptr = out.buf
    /\ out.len = BufLen(out.buf)
    /\ out.destr = "free"
    /\ out.liveAtBind
    /\ bufs[out.buf].frees = 0
    /\ \A x \in DataNames : descs[x].alive /\ is_data_owner(descs[x])
                              => descs[x].data # out.buf

\* C8: the ownership mode of a bound text or blob value: an lvalue is bound
\* as SQLITE_STATIC, an rvalue that does not own its buffer as
\* SQLITE_TRANSIENT, an rvalue Data that owns its buffer with its own
\* release function.
C8_OwnershipMode ==
  out.op = "bind" =>
    out.destr = IF ~out.rvalue THEN "STATIC"
                ELSE IF out.wasOwner THEN "free" ELSE "TRANSIENT"

\* C9: a value bound from an rvalue never leaves the engine with a pointer
\* to destroyed storage, and the engine reads exactly the original bytes.
C9_NoDanglingBinding ==
  /\ (binding.rvalue /\ binding.kind = "ptr") =>
       bufs[binding.buf].state = "live"
  /\ (out.op = "read" /\ out.rvalue) => out.value = out.buf

\* ------------------------------------------------------------------------
\* The life of Statement and Connection objects.  An operation maps a
\* world L to the world after it:
\*   conns, stmts, hs   the objects and the engine's handles
\*   exc, code          the exception that left the operation ("none")
\*   res                the value returned
\*   fin                the handles sqlite3_finalize was called on
\*   closed             the sqlite3_close calls made: [h, rc]
\* ------------------------------------------------------------------------
Life(cs, ss, hs) ==
  [conns |-> cs, stmts |-> ss, hs |-> hs, exc |-> "none", code |-> 0,
   res |-> <<>>, fin |-> <<>>, closed |-> <<>>]

\* Engine: the result of sqlite3_finalize(h): OK for a null handle, else
\* the code of the most recent execution of the statement.
FinalizeCode(hs, h) == IF h = 0 THEN SQLITE_OK ELSE hs.stmts[h].rc

\* Engine: the result of sqlite3_close(h): OK for a null handle, BUSY while
\* a statement prepared on h is not finalized.
CloseCode(hs, h) ==
  IF h = 0 THEN SQLITE_OK
  ELSE IF \E t \in StmtHandles : hs.stmts[t].state = "open" /\ hs.stmts[t].db = h
  THEN SQLITE_BUSY
  ELSE SQLITE_OK

\* sqlite3_finalize(h) in the world L
Finalized(L, h) ==
  IF h = 0 THEN L
  ELSE [L EXCEPT !.hs.stmts[h] = [state |-> "finalized", db |-> 0,
                                   rc |-> SQLITE_OK,
                                   finalizes |-> L.hs.stmts[h].finalizes + 1],
                 !.fin = Append(L.fin, h)]

\* sqlite3_close(h) in the world L: the handle stays open when the engine
\* answers BUSY.
Closed(L, h) ==
  IF h = 0 THEN L
  ELSE [L EXCEPT !.hs.dbs[h] = IF CloseCode(L.hs, h) = SQLITE_OK THEN "closed" ELSE @,
                 !.closed = Append(L.closed, [h |-> h, rc |-> CloseCode(L.hs, h)])]

\* A variant of close that keeps the handle in the object.
Statement_close_keeps(L, s) ==
  [Finalized(L, L.stmts[s].handle) EXCEPT
     !.res = <<FinalizeCode(L.hs, L.stmts[s].handle)>>,
     !.stmts[s].last = Unset]

\* Statement::close
Statement_close(L, s) ==
  [Finalized(L, L.stmts[s].handle) EXCEPT
     !.res = <<FinalizeCode(L.hs, L.stmts[s].handle)>>,
     !.stmts[s].last = Unset,
     !.stmts[s].handle = 0]

\* A variant of close that gives up the handle also when the engine fails.
Connection_close_drops(L, c) ==
  IF CloseCode(L.hs, L.conns[c].handle) # SQLITE_OK
  THEN [Closed(L, L.conns[c].handle) EXCEPT
          !.exc = "Sqlite_exception", !.code = CloseCode(L.hs, L.conns[c].handle),
          !.conns[c].handle = 0]
  ELSE [Closed(L, L.conns[c].handle) EXCEPT !.conns[c].handle = 0]

\* Connection::close
Connection_close(L, c) ==
  IF CloseCode(L.hs, L.conns[c].handle) # SQLITE_OK
  THEN [Closed(L, L.conns[c].handle) EXCEPT
          !.exc = "Sqlite_exception", !.code = CloseCode(L.hs, L.conns[c].handle)]
  ELSE [Closed(L, L.conns[c].handle) EXCEPT !.conns[c].handle = 0]

\* A variant of the destructors that lets the exception out.
Swallow_rethrows(L) == [L EXCEPT !.res = <<>>]

\* ~Statement / ~Connection: try { close(); } catch (...) {}
Swallow(L) == [L EXCEPT !.exc = "none", !.code = 0, !.res = <<>>]

\* Statement::~Statement
Statement_destroy(L, s) ==
  [Swallow(Statement_close(L, s)) EXCEPT !.stmts[s].alive = FALSE]

\* Connection::~Connection
Connection_destroy(L, c) ==
  [Swallow(Connection_close(L, c)) EXCEPT
     !.conns[c] = [DefaultConnection EXCEPT !.alive = FALSE]]

\* A variant of the move constructor that leaves rhs as it was.
MovedFromStatement_keeps(st) == st

\* Statement(Statement&& rhs): what is left in rhs after tmp.swap(rhs)
MovedFromStatement(st) == DefaultStatement

\* Statement(Statement&& rhs)
Statement_move_construct(L, dst, src) ==
  [L EXCEPT !.stmts[dst] = L.stmts[src],
            !.stmts[src] = MovedFromStatement(L.stmts[src])]

\* Statement::swap
Statement_swap(L, a, b) ==
  [L EXCEPT !.stmts[a] = L.stmts[b], !.stmts[b] = L.stmts[a]]

\* Statement::operator=(Statement&& rhs): tmp{std::move(rhs)}, swap(tmp),
\* ~tmp on what this held.
Statement_move_assign(L, dst, src) ==
  IF dst = src THEN L
  ELSE Swallow(Finalized(Statement_move_construct(L, dst, src), L.stmts[dst].handle))

\* Connection(Connection&& rhs)
Connection_move_construct(L, dst, src) ==
  [L EXCEPT !.conns[dst] = L.conns[src], !.conns[src] = DefaultConnection]

\* Connection::swap
Connection_swap(L, a, b) ==
  [L EXCEPT !.conns[a] = L.conns[b], !.conns[b] = L.conns[a]]

\* Connection::operator=(Connection&& rhs): tmp{std::move(rhs)}, swap(tmp),
\* ~tmp on what this held.
Connection_move_assign(L, dst, src) ==
  IF dst = src THEN L
  ELSE Swallow(Closed(Connection_move_construct(L, dst, src), L.conns[dst].handle))

\* Connection(ref, flags): sqlite3_open_v2 gives the database handle h.
Connection_open(L, c, h) ==
  [L EXCEPT !.conns[c] = [alive |-> TRUE, handle |-> h], !.hs.dbs[h] = "open"]

\* Statement(sqlite3*, sql, flags) as Connection::prepare makes it:
\* sqlite3_prepare_v3 gives the statement handle h.
Connection_prepare(L, c, s, h) ==
  IF L.conns[c].handle = 0 THEN [L EXCEPT !.exc = "Exception"]
  ELSE [L EXCEPT !.stmts[s] = [alive |-> TRUE, handle |-> h, last |-> Unset],
                 !.hs.stmts[h] = [state |-> "open", db |-> L.conns[c].handle,
                                  rc |-> SQLITE_OK, finalizes |-> 0]]

\* An execute of the statement s ended with the code rc.
Statement_ran(L, s, rc) ==
  [L EXCEPT !.stmts[s].last = rc,
            !.hs.stmts[L.stmts[s].handle].rc =
              IF rc \in {SQLITE_ROW, SQLITE_DONE} THEN SQLITE_OK ELSE rc]

\* ------------------------------------------------------------------------
\* Specification SpecLife: Connection objects c and d, Statement objects s
\* and t: open, prepare, execute, move, swap, close, destroy in any order
\* ------------------------------------------------------------------------
Now == Life(conns, stmts, handles)

\* out of SpecLife: the call, its objects, what they held before it, the
\* engine's answer to a finalize / close of the handle of obj at that
\* moment, and the outcome of the call.
LifeCall(op, obj, src, before, L) ==
  [op |-> op, obj |-> obj, src |-> src, h |-> before[obj].handle,
   srcH |-> IF src = "" THEN 0 ELSE before[src].handle,
   srcLast |-> IF src \in StmtNames THEN before[src].last ELSE Unset,
   rc |-> IF obj \in StmtNames THEN FinalizeCode(handles, before[obj].handle)
          ELSE CloseCode(handles, before[obj].handle),
   exc |-> L.exc, code |-> L.code, res |-> L.res, fin |-> L.fin,
   closed |-> L.closed]

InitLife ==
  /\ table = {}
  /\ autocommit = TRUE
  /\ saved = {}
  /\ conn_handle_ = 0
  /\ stmt_handle_ = 0
  /\ last_step_result_ = Unset
  /\ estmt = NoStmt
  /\ out = [op |-> "none"]
  /\ unit = NoUnit
  /\ NoData
  /\ NoLife

LifeBecomes(L) ==
  /\ conns' = L.conns
  /\ stmts' = L.stmts
  /\ handles' = L.hs
  /\ UNCHANGED stmtVars
  /\ UNCHANGED connVars
  /\ UNCHANGED dataVars

\* Connection c{ref, flags}
ConnOpen(c, h) ==
  /\ ~conns[c].alive
  /\ handles.dbs[h] = "unused"
  /\ \A g \in 1..(h - 1) : handles.dbs[g] # "unused"
  /\ out' = [op |-> "conn_open"]
  /\ LifeBecomes(Connection_open(Now, c, h))

\* Statement s{c.prepare(sql)}
ConnPrepare(c, s, h) ==
  /\ conns[c].alive
  /\ ~stmts[s].alive
  /\ handles.stmts[h].state = "unused"
  /\ \A g \in 1..(h - 1) : handles.stmts[g].state # "unused"
  /\ out' = [op |-> "prepare"]
  /\ LifeBecomes(Connection_prepare(Now, c, s, h))

\* s.execute(...) ended with rc.
StmtRuns(s, rc) ==
  /\ stmts[s].alive
  /\ stmts[s].handle # 0
  /\ out' = [op |-> "execute"]
  /\ LifeBecomes(Statement_ran(Now, s, rc))

\* s.close()
StmtClose(s) ==
  /\ stmts[s].alive
  /\ out' = LifeCall("stmt_close", s, "", stmts, Statement_close(Now, s))
  /\ LifeBecomes(Statement_close(Now, s))

\* s goes out of scope.
StmtDestroy(s) ==
  /\ stmts[s].alive
  /\ out' = LifeCall("stmt_destroy", s, "", stmts, Statement_destroy(Now, s))
  /\ LifeBecomes(Statement_destroy(Now, s))

\* Statement dst{std::move(src)}
StmtMoveConstruct(dst, src) ==
  /\ ~stmts[dst].alive
  /\ stmts[src].alive
  /\ out' = LifeCall("stmt_move_construct", dst, src, stmts,
                     Statement_move_construct(Now, dst, src))
  /\ LifeBecomes(Statement_move_construct(Now, dst, src))

\* dst = std::move(src)
StmtMoveAssign(dst, src) ==
  /\ stmts[dst].alive
  /\ stmts[src].alive
  /\ out' = LifeCall("stmt_move_assign", dst, src, stmts,
                     Statement_move_assign(Now, dst, src))
  /\ LifeBecomes(Statement_move_assign(Now, dst, src))

\* a.swap(b)
StmtSwap(a, b) ==
  /\ stmts[a].alive
  /\ stmts[b].alive
  /\ a # b
  /\ out' = [op |-> "stmt_swap"]
  /\ LifeBecomes(Statement_swap(Now, a, b))

\* c.close()
ConnClose(c) ==
  /\ conns[c].alive
  /\ out' = LifeCall("conn_close", c, "", conns, Connection_close(Now, c))
  /\ LifeBecomes(Connection_close(Now, c))

\* c goes out of scope.
ConnDestroy(c) ==
  /\ conns[c].alive
  /\ out' = LifeCall("conn_destroy", c, "", conns, Connection_destroy(Now, c))
  /\ LifeBecomes(Connection_destroy(Now, c))

\* Connection dst{std::move(src)}
ConnMoveConstruct(dst, src) ==
  /\ ~conns[dst].alive
  /\ conns[src].alive
  /\ out' = LifeCall("conn_move_construct", dst, src, conns,
                     Connection_move_construct(Now, dst, src))
  /\ LifeBecomes(Connection_move_construct(Now, dst, src))

\* dst = std::move(src)
ConnMoveAssign(dst, src) ==
  /\ conns[dst].alive
  /\ conns[src].alive
  /\ out' = LifeCall("conn_move_assign", dst, src, conns,
                     Connection_move_assign(Now, dst, src))
  /\ LifeBecomes(Connection_move_assign(Now, dst, src))

\* a.swap(b)
ConnSwap(a, b) ==
  /\ conns[a].alive
  /\ conns[b].alive
  /\ a # b
  /\ out' = [op |-> "conn_swap"]
  /\ LifeBecomes(Connection_swap(Now, a, b))

NextLife ==
  \/ \E c \in ConnNames, h \in DbHandles : ConnOpen(c, h)
  \/ \E c \in ConnNames, s \in StmtNames, h \in StmtHandles : ConnPrepare(c, s, h)
  \/ \E s \in StmtNames : StmtRuns(s, SQLITE_CONSTRAINT)
  \/ \E s \in StmtNames : StmtClose(s)
  \/ \E s \in StmtNames : StmtDestroy(s)
  \/ \E dst \in StmtNames, src \in StmtNames : StmtMoveConstruct(dst, src)
  \/ \E dst \in StmtNames, src \in StmtNames : StmtMoveAssign(dst, src)
  \/ \E a \in StmtNames, b \in StmtNames : StmtSwap(a, b)
  \/ \E c \in ConnNames : ConnClose(c)
  \/ \E c \in ConnNames : ConnDestroy(c)
  \/ \E dst \in ConnNames, src \in ConnNames : ConnMoveConstruct(dst, src)
  \/ \E dst \in ConnNames, src \in ConnNames : ConnMoveAssign(dst, src)
  \/ \E a \in ConnNames, b \in ConnNames : ConnSwap(a, b)

SpecLife == InitLife /\ [][NextLife]_vars

\* ------------------------------------------------------------------------
\* Properties of SpecLife
\* ------------------------------------------------------------------------
\* The live Statement / Connection objects that hold the handle h.
StmtHolders(h) == {s \in StmtNames : stmts[s].alive /\ stmts[s].handle = h}

ConnHolders(h) == {c \in ConnNames : conns[c].alive /\ conns[c].handle = h}

\* C17: sqlite3_finalize is called at most once on a statement handle;
\* close() raises nothing, returns the engine's finalize code also when it
\* is not OK, finalizes the handle the statement held and leaves the
\* statement without a handle; close() and destruction of a statement that
\* holds no handle finalize nothing, and close() then returns OK.
C17_CloseFinalizesOnce ==
  /\ \A h \in StmtHandles : handles.stmts[h].finalizes <= 1
  /\ out.op = "stmt_close" =>
       /\ out.exc = "none"
       /\ out.res = <<out.rc>>
       /\ stmts[out.obj].handle = 0
       /\ out.h # 0 =>
            /\ out.fin = <<out.h>>
            /\ handles.stmts[out.h].state = "finalized"
       /\ out.h = 0 => (out.fin = <<>> /\ out.res = <<SQLITE_OK>>)
  /\ (out.op = "stmt_destroy" /\ out.h = 0) => out.fin = <<>>
  /\ (out.op = "stmt_destroy" /\ out.h # 0) =>
       (out.fin = <<out.h>> /\ handles.stmts[out.h].finalizes = 1)

\* C17 witness: close() of a statement whose last execution failed returned
\* that code, and both statement handles were finalized once.
C17_Witness ==
  /\ out.op = "stmt_close"
  /\ out.h # 0
  /\ out.res = <<SQLITE_CONSTRAINT>>
  /\ \A h \in 1..2 : handles.stmts[h].finalizes = 1
  /\ \A s \in StmtNames : stmts[s].handle = 0

\* C18: the destruction of a Statement or of a Connection lets no exception
\* out, whatever the engine answers to the finalize or the close.
C18_DestructorsSwallow ==
  out.op \in {"stmt_destroy", "conn_destroy"} => out.exc = "none"

\* C18 witness: a Connection was destroyed while a statement prepared on it
\* was open: sqlite3_close answered BUSY and nothing was raised.
C18_Witness ==
  /\ out.op = "conn_destroy"
  /\ out.h # 0
  /\ out.closed = <<[h |-> out.h, rc |-> SQLITE_BUSY]>>
  /\ out.exc = "none"

\* C19: once every Connection and every Statement object is destroyed, no
\* database handle and no statement handle is open.
C19_GuaranteedRelease ==
  (/\ \A c \in ConnNames : ~conns[c].alive
   /\ \A s \in StmtNames : ~stmts[s].alive) =>
    /\ \A h \in DbHandles : handles.dbs[h] # "open"
    /\ \A h \in StmtHandles : handles.stmts[h].state # "open"

\* C20: an open handle is held by at most one live object; after a move
\* construction or a move assignment from another object the source holds
\* no handle (a Statement has the unset marker) and the target holds what
\* the source held; a move assignment finalizes, or closes, what the target
\* held exactly once, and nothing else.
C20_ExclusiveOwnership ==
  /\ \A h \in StmtHandles :
       handles.stmts[h].state = "open" => Cardinality(StmtHolders(h)) <= 1
  /\ \A h \in DbHandles :
       handles.dbs[h] = "open" => Cardinality(ConnHolders(h)) <= 1
  /\ (out.op \in {"stmt_move_construct", "stmt_move_assign"} /\ out.obj # out.src) =>
       /\ stmts[out.src] = DefaultStatement
       /\ stmts[out.obj] = [alive |-> TRUE, handle |-> out.srcH, last |-> out.srcLast]
       /\ out.fin = IF out.op = "stmt_move_assign" /\ out.h # 0
                    THEN <<out.h>> ELSE <<>>
       /\ out.h # 0 => handles.stmts[out.h].finalizes = 1
  /\ (out.op \in {"conn_move_construct", "conn_move_assign"} /\ out.obj # out.src) =>
       /\ conns[out.src] = DefaultConnection
       /\ conns[out.obj] = [alive |-> TRUE, handle |-> out.srcH]
       /\ out.closed = IF out.op = "conn_move_assign" /\ out.h # 0
                       THEN <<[h |-> out.h, rc |-> out.rc]>> ELSE <<>>

\* C20 witness: t = std::move(s) with both holding a statement: t holds
\* what s held, with its marker, and what t held was finalized.
C20_Witness ==
  /\ out.op = "stmt_move_assign"
  /\ out.obj # out.src
  /\ out.h # 0
  /\ out.srcH # 0
  /\ out.srcLast = SQLITE_CONSTRAINT
  /\ stmts[out.obj].handle = out.srcH
  /\ stmts[out.obj].last = SQLITE_CONSTRAINT
  /\ handles.stmts[out.h].state = "finalized"
  /\ handles.stmts[out.srcH].state = "open"

\* ------------------------------------------------------------------------
\* Conversions<T>: what bind hands to the engine and what result makes of a
\* column.  A value the engine holds is a cell [type, num, bytes]: type is
\* "NULL", "INTEGER", "FLOAT", "TEXT" or "BLOB"; a FLOAT holds its number in
\* tenths; a TEXT or a BLOB holds its bytes.  A pointer the engine returns is
\* <<>> when null and <<bytes>> otherwise, the bytes being followed by a zero
\* byte.  A std::string, a std::string_view and a Data read from a column
\* are [bytes, size].
\* ------------------------------------------------------------------------
NullCell == [type |-> "NULL", num |-> 0, bytes |-> <<>>]

IntCell(v) == [type |-> "INTEGER", num |-> v, bytes |-> <<>>]

FloatCell(v) == [type |-> "FLOAT", num |-> v, bytes |-> <<>>]

BytesCell(type, bytes) == [type |-> type, num |-> 0, bytes |-> bytes]

\* The bytes of buffer b: buffer 2 holds a zero byte inside.
BufBytes(b) == [i \in 1..BufLen(b) |-> IF b = 2 /\ i = 2 THEN 0 ELSE b + i]

\* The types with a Conversions entry that a round trip is made for.
ScalarTypes == {"int", "sqlite3_int64", "double"}

StringTypes == {"string", "string_view"}

DataTypes == {"Blob", "Text_utf8"}

\* The type of the descriptors of SpecConv: x is a Blob, y a Text_utf8.
DataType(x) == IF x = "x" THEN "Blob" ELSE "Text_utf8"

\* Engine: sqlite3_bind_int / sqlite3_bind_int64 / sqlite3_bind_double put
\* the cell in place of the binding.
sqlite3_bind_scalar(w, cell) ==
  [w EXCEPT !.bufs = Unbound(w.bufs, w.binding),
            !.binding = [kind |-> "scalar", buf |-> 0, len |-> 0,
                         destr |-> "STATIC", rvalue |-> FALSE, cell |-> cell]]

\* Engine: sqlite3_bind_null
sqlite3_bind_null(w) ==
  [w EXCEPT !.bufs = Unbound(w.bufs, w.binding), !.binding = NoBinding]

\* Conversions<int | sqlite3_int64 | double>::bind(handle, index, value)
Conversions_scalar_bind(w, T, v) ==
  sqlite3_bind_scalar(w, IF T = "double" THEN FloatCell(v) ELSE IntCell(v))

\* The overload of bind that a call bind(handle, index, value) made inside
\* Conversions<std::optional<T>> finds: the member template of that
\* specialization, enabled only for a value of type std::optional<T>.
OptionalBindAccepts(S) == S = "optional"

\* Conversions<std::optional<T>>::bind(handle, index, value).  Its body binds
\* a present value by the call bind(handle, index, *value), whose argument is
\* a T: no overload accepts it, so the body is ill-formed and no program that
\* binds an optional, empty or present, is built.  [w, exc].
Conversions_optional_bind(w, T, present, v) ==
  IF ~OptionalBindAccepts(T) THEN [w |-> w, exc |-> "ill_formed"]
  ELSE IF present THEN [w |-> Conversions_scalar_bind(w, T, v), exc |-> "none"]
  ELSE [w |-> sqlite3_bind_null(w), exc |-> "none"]

\* Engine: the value a step of the insert stores for the bound parameter,
\* taken from the engine's copy or through the pointer it was given; blob
\* tells sqlite3_bind_blob64 from sqlite3_bind_text64.  The column has the
\* affinity of the value's type, which stores the value as it is.
StoredCell(w, blob) ==
  IF w.binding.kind = "null" THEN NullCell
  ELSE IF w.binding.kind = "scalar" THEN w.binding.cell
  ELSE BytesCell(IF blob THEN "BLOB" ELSE "TEXT",
                 SubSeq(BufBytes(w.binding.buf), 1, w.binding.len))

sqlite3_column_type(c) == c.type

\* sqlite3_column_int64: a FLOAT is truncated, NULL and bytes that are no
\* digits give 0.
sqlite3_column_int64(c) ==
  IF c.type = "INTEGER" THEN c.num
  ELSE IF c.type = "FLOAT"
    THEN (IF c.num < 0 THEN 0 - ((0 - c.num) \div 10) ELSE c.num \div 10)
    ELSE 0

\* sqlite3_column_int: the lower 32 bits; every INTEGER of the model fits.
sqlite3_column_int(c) == sqlite3_column_int64(c)

\* sqlite3_column_double, in tenths
sqlite3_column_double(c) ==
  IF c.type = "FLOAT" THEN c.num
  ELSE IF c.type = "INTEGER" THEN 10 * c.num ELSE 0

\* sqlite3_column_text of a NULL, a TEXT or a BLOB
sqlite3_column_text(c) == IF c.type = "NULL" THEN <<>> ELSE <<c.bytes>>

\* sqlite3_column_blob: a null pointer for NULL and for a zero-length value
sqlite3_column_blob(c) ==
  IF c.type = "NULL" \/ Len(c.bytes) = 0 THEN <<>> ELSE <<c.bytes>>

sqlite3_column_bytes(c) == Len(c.bytes)

\* The first n bytes at the pointer ptr.
BytesAt(ptr, n) == IF ptr = <<>> THEN <<>> ELSE SubSeq(ptr[1], 1, n)

\* The number of bytes before the first zero byte at the pointer ptr.
RECURSIVE strlen_from(_, _)
strlen_from(bytes, i) ==
  IF i > Len(bytes) \/ bytes[i] = 0 THEN i - 1 ELSE strlen_from(bytes, i + 1)

\* A variant of the string result that measures the text up to its first
\* zero byte.
Conversions_string_result_strlen(c) ==
  [bytes |-> BytesAt(sqlite3_column_text(c),
                     IF sqlite3_column_text(c) = <<>> THEN 0
                     ELSE strlen_from(sqlite3_column_text(c)[1], 1)),
   size |-> IF sqlite3_column_text(c) = <<>> THEN 0
            ELSE strlen_from(sqlite3_column_text(c)[1], 1)]

\* Conversions<std::string | std::string_view>::result:
\* T{sqlite3_column_text(...), sqlite3_column_bytes(...)}
Conversions_string_result(c) ==
  [bytes |-> BytesAt(sqlite3_column_text(c), sqlite3_column_bytes(c)),
   size |-> sqlite3_column_bytes(c)]

\* Conversions<Data<T, E>>::result: R{sqlite3_column_blob | sqlite3_column_text,
\* sqlite3_column_bytes}
Conversions_Data_result(T, c) ==
  [bytes |-> BytesAt(IF T = "Blob" THEN sqlite3_column_blob(c)
                     ELSE sqlite3_column_text(c), sqlite3_column_bytes(c)),
   size |-> sqlite3_column_bytes(c)]

\* Conversions<int | sqlite3_int64 | double>::result
Conversions_scalar_result(T, c) ==
  IF T = "int" THEN sqlite3_column_int(c)
  ELSE IF T = "sqlite3_int64" THEN sqlite3_column_int64(c)
  ELSE sqlite3_column_double(c)

\* Conversions<T>::result(handle, index)
Conversions_result(T, c) ==
  IF T \in ScalarTypes THEN Conversions_scalar_result(T, c)
  ELSE IF T \in StringTypes THEN Conversions_string_result(c)
  ELSE Conversions_Data_result(T, c)

\* Conversions<std::optional<T>>::result: [present, v, reads], reads being
\* the calls of Conversions<T>::result made.
Conversions_optional_result(T, c) ==
  IF sqlite3_column_type(c) # "NULL"
  THEN [present |-> TRUE, v |-> Conversions_result(T, c), reads |-> 1]
  ELSE [present |-> FALSE, v |-> 0, reads |-> 0]

\* ------------------------------------------------------------------------
\* Specification SpecConv: a value goes into tab through
\* Connection::execute(sql, value) and is read back by Statement::result<T>
\* in the callback of a select.  tab holds at most one row [id, val, T, v,
\* rvalue, wasOwner, optional]: val is the cell stored; T, v, rvalue,
\* wasOwner and optional tell what the caller passed.
\* ------------------------------------------------------------------------
\* The values the caller passes: integers, and doubles in tenths.
IntValues == {0 - 1, 0, 42}

DoubleValues == {0 - 15, 12}

ValuesOf(T) == IF T = "double" THEN DoubleValues ELSE IntValues

\* The value of a std::string or std::string_view whose characters are
\* buffer b.
StringValue(b) == [bytes |-> BufBytes(b), size |-> BufLen(b)]

\* The value of the Data descriptor d.
DataValue(d) ==
  [bytes |-> IF d.data = 0 THEN <<>> ELSE SubSeq(BufBytes(d.data), 1, d.size),
   size |-> d.size]

NoConvCall ==
  [op |-> "none", T |-> "", v |-> 0, rvalue |-> FALSE, wasOwner |-> FALSE,
   optional |-> FALSE, present |-> FALSE, exc |-> "none", srcT |-> "",
   cell |-> NullCell, res |-> 0]

\* The row a step of the insert stores.
Stored(w, blob, T, v, rvalue, wasOwner, optional) ==
  {[id |-> 0, val |-> StoredCell(w, blob), T |-> T, v |-> v,
    rvalue |-> rvalue, wasOwner |-> wasOwner, optional |-> optional]}

TheRow == CHOOSE r \in table : TRUE

ConvBecomes(w, tbl) ==
  /\ descs' = w.descs
  /\ bufs' = w.bufs
  /\ binding' = w.binding
  /\ table' = tbl
  /\ UNCHANGED <<autocommit, saved, conn_handle_, unit>>
  /\ UNCHANGED stmtVars
  /\ UNCHANGED lifeVars

\* c.execute("insert into tab(col) values(?)", value): the one-shot
\* statement binds value, steps and is finalized; w is the world after the
\* bind.
Inserted(w, blob, T, v, rvalue, wasOwner, optional) ==
  ConvBecomes(sqlite3_finalize(w),
              Stored(w, blob, T, v, rvalue, wasOwner, optional))

\* c.execute("delete from tab")
Truncate ==
  /\ table # {}
  /\ out' = [NoConvCall EXCEPT !.op = "delete"]
  /\ ConvBecomes(World, {})

\* c.execute("insert ...", v) for an int, a sqlite3_int64 or a double
InsertScalar(T, v) ==
  /\ table = {}
  /\ out' = [NoConvCall EXCEPT !.op = "insert", !.T = T, !.v = v]
  /\ Inserted(Conversions_scalar_bind(World, T, v), FALSE, T, v, FALSE, FALSE,
              FALSE)

\* c.execute("insert ...") with no value: the parameter is NULL.
InsertNull ==
  /\ table = {}
  /\ out' = [NoConvCall EXCEPT !.op = "insert", !.T = "null"]
  /\ Inserted(sqlite3_bind_null(World), FALSE, "null", 0, FALSE, FALSE, FALSE)

\* c.execute("insert ...", std::optional<T>{...})
InsertOptional(T, present, v) ==
  /\ table = {}
  /\ \E r \in {Conversions_optional_bind(World, T, present, v)} :
       /\ out' = [NoConvCall EXCEPT !.op = "insert", !.T = T, !.v = v,
                    !.optional = TRUE, !.present = present, !.exc = r.exc]
       /\ IF r.exc = "none"
          THEN Inserted(r.w, FALSE, T, v, FALSE, FALSE, TRUE)
          ELSE ConvBecomes(World, table)

\* c.execute("insert ...", str) or (..., std::move(str)) for a std::string
\* or a std::string_view whose characters are the caller's buffer b
InsertString(T, b, rvalue) ==
  /\ table = {}
  /\ bufs[b].state = "live"
  /\ ~bufs[b].owned
  /\ out' = [NoConvCall EXCEPT !.op = "insert", !.T = T, !.v = StringValue(b),
               !.rvalue = rvalue]
  /\ Inserted(Conversions_string_bind(World, b, rvalue), FALSE, T,
              StringValue(b), rvalue, FALSE, FALSE)

\* c.execute("insert ...", x) or (..., std::move(x)) for the Blob x or the
\* Text_utf8 y
InsertData(x, rvalue) ==
  /\ table = {}
  /\ descs[x].alive
  /\ descs[x].data # 0 => bufs[descs[x].data].state = "live"
  /\ out' = [NoConvCall EXCEPT !.op = "insert", !.T = DataType(x),
               !.v = DataValue(descs[x]), !.rvalue = rvalue,
               !.wasOwner = is_data_owner(descs[x])]
  /\ Inserted(Conversions_Data_bind(World, x, rvalue), DataType(x) = "Blob",
              DataType(x), DataValue(descs[x]), rvalue,
              is_data_owner(descs[x]), FALSE)

\* The cells a result<T> of the model is called on: a number is read as a
\* number, bytes as bytes, NULL as anything.
Readable(T, c) ==
  \/ c.type = "NULL"
  \/ T \in ScalarTypes /\ c.type \in {"INTEGER", "FLOAT"}
  \/ T \notin ScalarTypes /\ c.type \in {"TEXT", "BLOB"}

\* out of a read of the row: the type read, the cell, what the caller had
\* stored, the result.
ReadOf(op, T, res) ==
  [NoConvCall EXCEPT !.op = op, !.T = T, !.srcT = TheRow.T, !.v = TheRow.v,
     !.rvalue = TheRow.rvalue, !.wasOwner = TheRow.wasOwner,
     !.optional = TheRow.optional, !.cell = TheRow.val, !.res = res]

\* s.result<T>(col) in the callback of the select
ReadAs(T) ==
  /\ table # {}
  /\ Readable(T, TheRow.val)
  /\ out' = ReadOf("read", T, Conversions_result(T, TheRow.val))
  /\ ConvBecomes(World, table)

\* s.result<std::optional<T>>(col) in the callback of the select
ReadOptional(T) ==
  /\ table # {}
  /\ Readable(T, TheRow.val)
  /\ out' = ReadOf("read_optional", T, Conversions_optional_result(T, TheRow.val))
  /\ ConvBecomes(World, table)

\* The callback of the unit test: the column read as Text_utf8, as
\* std::string and as std::string_view.
ReadTexts ==
  /\ table # {}
  /\ Readable("string", TheRow.val)
  /\ out' = ReadOf("read_texts", "texts",
                   <<Conversions_result("Text_utf8", TheRow.val),
                     Conversions_result("string", TheRow.val),
                     Conversions_result("string_view", TheRow.val)>>)
  /\ ConvBecomes(World, table)

NextConv ==
  \/ \E x \in DataNames, b \in Bufs, del \in Deleters : Construct(x, b, del)
  \/ \E x \in DataNames : Destroy(x)
  \/ Truncate
  \/ \E T \in ScalarTypes : \E v \in ValuesOf(T) : InsertScalar(T, v)
  \/ InsertNull
  \/ \E T \in ScalarTypes, present \in BOOLEAN : \E v \in ValuesOf(T) :
       InsertOptional(T, present, v)
  \/ \E T \in StringTypes, b \in Bufs, rvalue \in BOOLEAN :
       InsertString(T, b, rvalue)
  \/ \E x \in DataNames, rvalue \in BOOLEAN : InsertData(x, rvalue)
  \/ \E T \in ScalarTypes \cup StringTypes \cup DataTypes : ReadAs(T)
  \/ \E T \in ScalarTypes \cup StringTypes \cup DataTypes : ReadOptional(T)
  \/ ReadTexts

SpecConv == InitData /\ [][NextConv]_vars

\* ------------------------------------------------------------------------
\* Properties of SpecConv
\* ------------------------------------------------------------------------
\* C23: a value bound through Conversions<T>::bind, stored by a step and read
\* back through Conversions<T>::result as the same T (int, sqlite3_int64,
\* double, std::string, std::string_view, Blob, Text_utf8) is the value that
\* was bound: the same number, the same bytes and the same length.
C23_RoundTrip ==
  (out.op = "read" /\ ~out.optional /\ out.T = out.srcT) => out.res = out.v

\* C24: binding a std::optional<T> binds NULL when it is empty and binds the
\* value through Conversions<T>::bind when it is present; reading one gives
\* nullopt for a NULL column and otherwise the value Conversions<T>::result
\* gives, which is called only when the column is not NULL.
C24_OptionalConversions ==
  /\ (out.op = "insert" /\ out.optional) =>
       /\ out.exc = "none"
       /\ table = {[id |-> 0,
                    val |-> IF ~out.present THEN NullCell
                            ELSE IF out.T = "double" THEN FloatCell(out.v)
                            ELSE IntCell(out.v),
                    T |-> out.T, v |-> out.v, rvalue |-> FALSE,
                    wasOwner |-> FALSE, optional |-> TRUE]}
  /\ out.op = "read_optional" =>
       /\ out.res.present = (out.cell.type # "NULL")
       /\ out.res.present => out.res.v = Conversions_result(out.T, out.cell)
       /\ out.res.reads = (IF out.cell.type = "NULL" THEN 0 ELSE 1)

\* C26: a text column that is not NULL, read in one callback as Text_utf8,
\* as std::string and as std::string_view, gives the same bytes and the same
\* length three times.
C26_SameText ==
  (out.op = "read_texts" /\ out.cell.type = "TEXT") =>
    /\ out.res[1] = out.res[2]
    /\ out.res[2] = out.res[3]
    /\ out.res[1].bytes = out.cell.bytes
    /\ out.res[1].size = Len(out.cell.bytes)

\* A text with a zero byte inside has been read in the three ways.
C26_Witness ==
  /\ out.op = "read_texts"
  /\ out.cell.type = "TEXT"
  /\ \E i \in 1..Len(out.cell.bytes) : out.cell.bytes[i] = 0
  /\ out.res[2].size = 3

\* ------------------------------------------------------------------------
\* The single-header variant (sqlixx.hpp): Connection::execute and
\* Connection::with_rollback_on_error on a connection that has a handle.
\* Every exception of the library is an Exception that carries the engine's
\* code; "alloc" is the failure of the allocation of the message of the
\* exception that reports a failed prepare, which raises std::bad_alloc.
\* ------------------------------------------------------------------------
\* Statement::Statement(sqlite3*, sql, flags) of sqlixx.hpp
Hdr_Statement(c, sql, fault) ==
  IF fault = "prepare"
    THEN [c EXCEPT !.prepared = Append(c.prepared, sql),
                   !.exc = Exc("Exception", SQLITE_NOMEM)]
  ELSE IF fault = "alloc"
    THEN [c EXCEPT !.prepared = Append(c.prepared, sql),
                   !.exc = Exc("bad_alloc", 0)]
  ELSE [c EXCEPT !.prepared = Append(c.prepared, sql), !.made = c.made + 1]

\* Statement::execute_once of sqlixx.hpp with the callback that always
\* returns true: bind_many, then steps until one returns no row; a failed
\* step raises Exception(r).  The connection after it and ~Statement.
Hdr_execute_once(p, sql, values, fault) ==
  LET m == ExecuteLoop(Statement_bind_many(
                         Machine(1, Unset, sqlite3_prepare_v3(sql), p.db, fault),
                         values),
                       Callback(1, FALSE, 0))
  IN [p EXCEPT !.db = m.db, !.steps = p.steps + m.steps,
               !.finalized = p.finalized + 1,
               !.exc = IF m.exc = "none" THEN NoExc ELSE Exc("Exception", m.code)]

\* Connection::execute(sql, values...) of sqlixx.hpp
Hdr_Connection_execute(c, sql, values, fault) ==
  IF Hdr_Statement(c, sql, fault).exc # NoExc THEN Hdr_Statement(c, sql, fault)
  ELSE Hdr_execute_once(Hdr_Statement(c, sql, fault), sql, values, fault)

\* with_rollback_on_error of sqlixx.hpp: rollback_failure after
\* execute("rollback") ended as the connection r.
Hdr_rollback_failure(r) ==
  IF r.exc = NoExc THEN SQLITE_OK
  ELSE IF r.exc.type = "Exception" THEN r.exc.code
  ELSE SQLITE_ERROR

\* A variant that nests the exception of the ROLLBACK in place of E.
Hdr_rethrow_nests_rollback(r, E) ==
  IF Hdr_rollback_failure(r) = SQLITE_OK THEN [r EXCEPT !.exc = E]
  ELSE [r EXCEPT !.rbExc = r.exc,
                 !.exc = [type |-> "Exception", code |-> Hdr_rollback_failure(r),
                          nested |-> <<r.exc>>]]

\* with_rollback_on_error of sqlixx.hpp: `throw;` of E, or
\* std::throw_with_nested(Exception{rollback_failure}) made in the handler
\* of E, after the handlers of the ROLLBACK's exception were left.
Hdr_rethrow(r, E) ==
  IF Hdr_rollback_failure(r) = SQLITE_OK THEN [r EXCEPT !.exc = E]
  ELSE [r EXCEPT !.rbExc = r.exc,
                 !.exc = [type |-> "Exception", code |-> Hdr_rollback_failure(r),
                          nested |-> <<E>>]]

\* Connection::with_rollback_on_error of sqlixx.hpp, from the point where
\* the callback ends: it returned ret (E = NoExc) or raised E.
Hdr_with_rollback_on_error(c, E, ret, fault) ==
  IF E = NoExc THEN [c EXCEPT !.res = ret]
  ELSE IF Connection_is_transaction_active(c)
    THEN Hdr_rethrow(Hdr_Connection_execute(c, "rollback", <<>>, fault), E)
    ELSE [c EXCEPT !.exc = E]

\* ------------------------------------------------------------------------
\* Specification SpecHdr: SpecTxn for the single-header variant
\* ------------------------------------------------------------------------
HdrFaults == Faults \cup {"alloc"}

\* The end of with_rollback_on_error around a unit of work that, on the
\* connection c, returned ret or raised E.
HdrLeave(c, E, ret, rfault) ==
  \E r \in {Hdr_with_rollback_on_error(c, E, ret, rfault)} :
  /\ out' = [NoTxnCall EXCEPT !.op = "hdr_with_rollback_on_error", !.E = E,
               !.ret = ret, !.active = ~c.db.ac, !.began = unit.began,
               !.writes = unit.writes, !.fault = rfault, !.raised = r.exc,
               !.rbExc = r.rbExc, !.prepared = r.prepared, !.steps = r.steps,
               !.res = r.res, !.h = c.h, !.made = r.made,
               !.finalized = r.finalized]
  /\ unit' = NoUnit
  /\ ConnBecomes(r)

\* c.execute(sql, values...) outside a unit of work, or inside one that
\* handles the error itself when the call raises.
HdrExecute(sql, values, fault) ==
  \E c \in {Hdr_Connection_execute(Conn, sql, values, fault)} :
  /\ out' = [NoTxnCall EXCEPT !.op = "hdr_execute", !.sql = sql, !.fault = fault,
               !.raised = c.exc, !.prepared = c.prepared, !.steps = c.steps,
               !.h = conn_handle_, !.made = c.made, !.finalized = c.finalized]
  /\ unit' = IF unit.on THEN UnitAfter(unit, sql, values, c.exc = NoExc) ELSE unit
  /\ ConnBecomes(c)

\* c.execute(sql, values...) raises inside the unit of work, which lets the
\* error out.
HdrUnitFails(sql, values, fault, rfault) ==
  \E c \in {Hdr_Connection_execute(Conn, sql, values, fault)} :
  /\ unit.on
  /\ c.exc # NoExc
  /\ HdrLeave([ConnMachine(c.h, c.db) EXCEPT !.steps = 0], c.exc, <<>>, rfault)

\* The unit of work raises an error of its own.
HdrUnitThrows(E, rfault) ==
  /\ unit.on
  /\ HdrLeave(Conn, E, <<>>, rfault)

\* The unit of work returns ret.
HdrUnitReturns(ret) ==
  /\ unit.on
  /\ HdrLeave(Conn, NoExc, ret, "none")

NextHdr ==
  \/ Enter
  \/ \E sql \in TxnSqls \cup {"insert"}, fault \in HdrFaults :
       \E values \in TxnValueLists(sql) : HdrExecute(sql, values, fault)
  \/ \E sql \in TxnSqls \cup {"insert"}, fault \in HdrFaults, rfault \in HdrFaults :
       \E values \in TxnValueLists(sql) : HdrUnitFails(sql, values, fault, rfault)
  \/ \E E \in UserErrors, rfault \in HdrFaults : HdrUnitThrows(E, rfault)
  \/ \E ret \in Rets : HdrUnitReturns(ret)

SpecHdr == InitTxn /\ [][NextHdr]_vars

\* ------------------------------------------------------------------------
\* Properties of SpecHdr
\* ------------------------------------------------------------------------
\* The code of the failure of a ROLLBACK that met the engine failure fault.
FailureCode(fault) ==
  IF fault = "prepare" THEN SQLITE_NOMEM
  ELSE IF fault = "step" THEN SQLITE_BUSY
  ELSE SQLITE_ERROR

SQLITE_CANTOPEN == 14

\* A variant of release that keeps the marker.
Statement_release_keeps_marker(L, s) ==
  [L EXCEPT !.res = <<L.stmts[s].handle>>, !.stmts[s].handle = 0]

\* Statement::release
Statement_release(L, s) ==
  [L EXCEPT !.res = <<L.stmts[s].handle>>,
            !.stmts[s].last = Unset,
            !.stmts[s].handle = 0]

\* A variant of release that closes the handle it returns.
Connection_release_closes(L, c) ==
  [Closed(L, L.conns[c].handle) EXCEPT
     !.res = <<L.conns[c].handle>>, !.conns[c].handle = 0]

\* Connection::release
Connection_release(L, c) ==
  [L EXCEPT !.res = <<L.conns[c].handle>>, !.conns[c].handle = 0]

\* Statement::reset in the world L; the engine forgets the failure of the
\* most recent execution.
Statement_reset_in(L, s) ==
  IF L.stmts[s].handle = 0 THEN [L EXCEPT !.stmts[s].last = Unset]
  ELSE [L EXCEPT !.stmts[s].last = Unset,
                 !.hs.stmts[L.stmts[s].handle].rc = SQLITE_OK]

\* Statement(): the default constructor
Statement_default(L, s) == [L EXCEPT !.stmts[s] = DefaultStatement]

\* Connection(ref, flags) when sqlite3_open_v2 fails: with the database
\* handle h, which the engine gives also with an error, the constructor
\* throws Sqlite_exception; with no handle (h = 0) it throws std::bad_alloc.
\* No Connection object comes to exist.
Connection_open_fails(L, c, h) ==
  IF h # 0
  THEN [L EXCEPT !.hs.dbs[h] = "open", !.exc = "Sqlite_exception",
                 !.code = SQLITE_CANTOPEN]
  ELSE [L EXCEPT !.exc = "bad_alloc"]

\* Connection c{ref, flags} fails; handed tells whether the engine gave a
\* handle.
ConnOpenFails(c, h, handed) ==
  /\ ~conns[c].alive
  /\ handles.dbs[h] = "unused"
  /\ \A g \in 1..(h - 1) : handles.dbs[g] # "unused"
  /\ \E L \in {Connection_open_fails(Now, c, IF handed THEN h ELSE 0)} :
       /\ out' = [op |-> "conn_open_fails", obj |-> c,
                  h |-> IF handed THEN h ELSE 0, exc |-> L.exc, code |-> L.code]
       /\ LifeBecomes(L)

\* Statement s;
StmtDefault(s) ==
  /\ ~stmts[s].alive
  /\ out' = LifeCall("stmt_default", s, "", stmts, Statement_default(Now, s))
  /\ LifeBecomes(Statement_default(Now, s))

\* s.reset()
StmtReset(s) ==
  /\ stmts[s].alive
  /\ out' = LifeCall("stmt_reset", s, "", stmts, Statement_reset_in(Now, s))
  /\ LifeBecomes(Statement_reset_in(Now, s))

\* s.release(); the caller keeps the handle.
StmtRelease(s) ==
  /\ stmts[s].alive
  /\ out' = LifeCall("stmt_release", s, "", stmts, Statement_release(Now, s))
  /\ LifeBecomes(Statement_release(Now, s))

\* c.release(); the caller keeps the handle.
ConnRelease(c) ==
  /\ conns[c].alive
  /\ out' = LifeCall("conn_release", c, "", conns, Connection_release(Now, c))
  /\ LifeBecomes(Connection_release(Now, c))

\* The codes an execute of SpecOwn ends with.
RunCodes == {SQLITE_DONE, SQLITE_CONSTRAINT}

\* SpecOwn has the one Connection object c.
OwnConns == {"c"}

NextOwn ==
  \/ \E c \in OwnConns, h \in DbHandles : ConnOpen(c, h)
  \/ \E c \in OwnConns, h \in DbHandles, handed \in BOOLEAN : ConnOpenFails(c, h, handed)
  \/ \E c \in OwnConns, s \in StmtNames, h \in StmtHandles : ConnPrepare(c, s, h)
  \/ \E s \in StmtNames, rc \in RunCodes : StmtRuns(s, rc)
  \/ \E s \in StmtNames : StmtDefault(s)
  \/ \E s \in StmtNames : StmtReset(s)
  \/ \E s \in StmtNames : StmtRelease(s)
  \/ \E s \in StmtNames : StmtClose(s)
  \/ \E s \in StmtNames : StmtDestroy(s)
  \/ \E dst \in StmtNames, src \in StmtNames : StmtMoveConstruct(dst, src)
  \/ \E dst \in StmtNames, src \in StmtNames : StmtMoveAssign(dst, src)
  \/ \E c \in OwnConns : ConnRelease(c)
  \/ \E c \in OwnConns : ConnClose(c)
  \/ \E c \in OwnConns : ConnDestroy(c)

SpecOwn == InitLife /\ [][NextOwn]_vars

\* ------------------------------------------------------------------------
\* Properties of SpecOwn and of SpecLife
\* ------------------------------------------------------------------------
\* C32: when the constructor of a Connection raises because the engine's
\* open failed, the database handle the engine gave with the error is not
\* left open.
C32_FailedOpenReleases ==
  (out.op = "conn_open_fails" /\ out.h # 0) => handles.dbs[out.h] # "open"

\* C36: a Statement without a handle has the unset marker, and the marker
\* is unset or a code a step returned; after default construction, close(),
\* release(), a move from it, and reset() without a handle, the statement
\* has no handle and the unset marker.
C36_NullHandleUnsetMarker ==
  /\ \A s \in StmtNames :
       /\ stmts[s].handle = 0 => stmts[s].last = Unset
       /\ stmts[s].last \in {Unset} \cup RunCodes
  /\ out.op \in {"stmt_default", "stmt_close", "stmt_release"} =>
       stmts[out.obj] = DefaultStatement
  /\ (out.op = "stmt_reset" /\ out.h = 0) => stmts[out.obj] = DefaultStatement
  /\ (out.op \in {"stmt_move_construct", "stmt_move_assign"} /\ out.obj # out.src) =>
       stmts[out.src] = DefaultStatement

\* C36 witness: release() of a statement whose execution had failed left it
\* with no handle and the unset marker; the handle is open.
C36_Witness ==
  /\ out.op = "stmt_release"
  /\ out.h # 0
  /\ out.rc = SQLITE_CONSTRAINT
  /\ stmts[out.obj] = DefaultStatement
  /\ handles.stmts[out.h].state = "open"

\* An open handle that no live object holds.
Unheld(h, stmt) ==
  IF stmt THEN handles.stmts[h].state = "open" /\ StmtHolders(h) = {}
  ELSE handles.dbs[h] = "open" /\ ConnHolders(h) = {}

\* C37: release() returns the handle the object held, leaves the object
\* without a handle and makes no call of sqlite3_finalize or sqlite3_close;
\* a handle that no object holds is left as it is by every later call.
C37_ReleaseHandsOver ==
  [][/\ out'.op = "stmt_release" =>
          /\ out'.res = <<stmts[out'.obj].handle>>
          /\ stmts'[out'.obj].handle = 0
          /\ out'.fin = <<>>
          /\ handles' = handles
     /\ out'.op = "conn_release" =>
          /\ out'.res = <<conns[out'.obj].handle>>
          /\ conns'[out'.obj].handle = 0
          /\ out'.closed = <<>>
          /\ handles' = handles
     /\ \A h \in StmtHandles :
          Unheld(h, TRUE) => handles'.stmts[h] = handles.stmts[h]
     /\ \A h \in DbHandles :
          Unheld(h, FALSE) => handles'.dbs[h] = handles.dbs[h]]_vars

\* C37 witness: a Statement that released its handle was destroyed; no
\* finalize was made, no Statement object is left, and the handle is open
\* and held by no object.
C37_Witness ==
  /\ out.op = "stmt_destroy"
  /\ out.h = 0
  /\ out.fin = <<>>
  /\ \E h \in StmtHandles : Unheld(h, TRUE)
  /\ \A s \in StmtNames : ~stmts[s].alive

\* C38: close() of a Connection raises a Sqlite_exception with the engine's
\* code when sqlite3_close fails, and the Connection keeps its handle, which
\* stays open; when sqlite3_close succeeds the Connection has no handle
\* afterwards, and close() of a Connection without a handle calls nothing
\* and raises nothing.
C38_CloseRetryable ==
  out.op = "conn_close" =>
    IF out.rc # SQLITE_OK
    THEN /\ out.exc = "Sqlite_exception"
         /\ out.code = out.rc
         /\ conns[out.obj] = [alive |-> TRUE, handle |-> out.h]
         /\ handles.dbs[out.h] = "open"
    ELSE /\ out.exc = "none"
         /\ conns[out.obj].handle = 0
         /\ out.h # 0 =>
              /\ out.closed = <<[h |-> out.h, rc |-> SQLITE_OK]>>
              /\ handles.dbs[out.h] = "closed"
         /\ out.h = 0 => out.closed = <<>>

\* C38 witness: close() of a Connection with an open statement raised the
\* engine's SQLITE_BUSY and the Connection has its handle.
C38_Witness ==
  /\ out.op = "conn_close"
  /\ out.exc = "Sqlite_exception"
  /\ out.code = SQLITE_BUSY
  /\ out.h # 0
  /\ conns[out.obj].handle = out.h
  /\ handles.dbs[out.h] = "open"

====
